---- MODULE Spec2Model ----
(***************************************************************************)
(* State-machine model of the real-time speech streaming server of         *)
(* src/app.py: the global session (run_flag, final_text), the Ring audio   *)
(* store, the listener registry with its queues, and the threads that act  *)
(* on them: /start and /stop request handlers, worker_loop decoder         *)
(* threads, the /ws ingestion handler and the /events streams.             *)
(*                                                                         *)
(* Granularity.  One action is one access to shared state, together with   *)
(* the thread-local computation that follows it up to the next shared      *)
(* access.  A thread's position (pc) is named after the source line it is  *)
(* about to execute ("s223" = start() before line 223).                    *)
(*                                                                         *)
(* Scaling.  Audio is scaled down: ASR_SR samples make one second and      *)
(* frame_16k samples make one VAD frame.  The comparisons of the code      *)
(* between lengths and fractions of a second are kept exact in integer     *)
(* arithmetic (len < sr * 0.5 is written 2 * len < sr).                    *)
(***************************************************************************)
EXTENDS Integers, Sequences, FiniteSets, TLC

(***************************************************************************)
(* Configuration (src/app.py lines 28-42), scaled.                         *)
(***************************************************************************)
ASR_SR == 2
WINDOW_SECONDS == 1
MAX_BUFFER_SECONDS == 2
frame_16k == 2
STEP_TICKS == 1
FINAL_UPDATE_TICKS == 2
VAD_FRAME_MS == 20
VAD_HANGOVER_MS == 300
DEFAULT_IN_SR == 3 * ASR_SR

(***************************************************************************)
(* Bounds of the model.                                                    *)
(***************************************************************************)
MaxListeners == 2

ListenerIds == 1..MaxListeners

\* Python's None; a value no text, status or sample is equal to.
None == "<None>"


VARIABLES
    run_flag,       \* threading.Event run_flag (line 152)
    final_text,     \* global final_text (line 153)
    ring_buf,       \* ring.buf: deque(maxlen) of samples
    ring_session,   \* ring.session: list of chunks
    listeners,      \* set listeners (line 122)
    queues,         \* the queue.Queue of every listener ever created
    published,      \* history: the events of all publish() calls, in lock order
    clock,          \* time.time(), in ticks
    starts,         \* the threads serving POST /start
    stops,          \* the threads serving POST /stop
    workers,        \* the worker_loop threads, in order of creation
    conn,           \* the thread serving the /ws connection
    streams,        \* the /events responses and their generators
    last_stop,      \* history: what the last stop() of a Running session returned
    appended,       \* history: the samples put into ring.buf since its last clear()
    gate_log,       \* history: the connection's frames, [voice, fwd, chunk] each
    probe,          \* the last direct call of a function: arguments and result
    JOBS,           \* dict JOBS of the video pipeline (src/main2.py line 150)
    tasks,          \* the background tasks running process_job, one per job
    env             \* the workload still to come (requests, messages, ticks)
                    \* and whether the history of publish() calls is kept

sessionVars == <<run_flag, final_text>>
ringVars == <<ring_buf, ring_session>>
hubVars == <<listeners, queues, published>>
threadVars == <<starts, stops, workers, conn, streams>>
histVars == <<last_stop, appended, gate_log, probe>>
jobVars == <<JOBS, tasks>>
vars == <<run_flag, final_text, ring_buf, ring_session, listeners, queues,
          published, clock, starts, stops, workers, conn, streams, last_stop,
          appended, gate_log, probe, JOBS, tasks, env>>

(***************************************************************************)
(* Sequences.                                                              *)
(***************************************************************************)
RECURSIVE Flatten(_)
Flatten(chunks) ==
    IF chunks = <<>> THEN <<>> ELSE Head(chunks) \o Flatten(Tail(chunks))

LastN(s, n) ==
    IF Len(s) <= n THEN s ELSE SubSeq(s, Len(s) - n + 1, Len(s))

(***************************************************************************)
(* class Ring (lines 63-83).                                               *)
(***************************************************************************)
\* deque(maxlen=int(max_seconds * sr))
RingCapacity == MAX_BUFFER_SECONDS * ASR_SR

\* Mutant of DequeExtend: a full buffer refuses the new samples.
DequeExtendKeepsOldest(buf, x) ==
    SubSeq(buf \o x, 1, IF Len(buf \o x) <= RingCapacity THEN Len(buf \o x)
                                                         ELSE RingCapacity)

\* self.buf.extend(x) on a deque with maxlen: append, dropping from the left.
DequeExtend(buf, x) == LastN(buf \o x, RingCapacity)

\* self.session.append(x)
SessionAppend(session, x) == Append(session, x)

\* latest_window, line 75: len(self.buf) < int(0.5 * self.sr)
WindowUnavailable(buf) == Len(buf) < (ASR_SR \div 2)

\* Python's a[k:] for an integer k: a negative k counts from the end, and -0 is 0
SliceFrom(a, k) ==
    LET start == IF k >= 0 THEN (IF k > Len(a) THEN Len(a) ELSE k)
                           ELSE (IF Len(a) + k < 0 THEN 0 ELSE Len(a) + k)
    IN  SubSeq(a, start + 1, Len(a))

\* latest_window, lines 74, 77-78: a if len(a) <= n else a[-n:]
WindowOf(buf, seconds) ==
    LET n == seconds * ASR_SR
    IN  IF Len(buf) <= n THEN buf ELSE SliceFrom(buf, 0 - n)

\* latest_window (lines 73-78) as one call on the buffer buf; none says that the
\* result is None
latest_window(buf, seconds) ==
    IF WindowUnavailable(buf) THEN [none |-> TRUE, a |-> <<>>]
                              ELSE [none |-> FALSE, a |-> WindowOf(buf, seconds)]

\* session_audio, line 83: np.concatenate(self.session)
SessionConcat(session) == Flatten(session)

(***************************************************************************)
(* publish (lines 135-147).  The payload is the JSON object; a key is      *)
(* present exactly when its argument is not None.  Every put_nowait on an  *)
(* unbounded queue.Queue succeeds, so no listener is removed here.         *)
(***************************************************************************)
\* Mutant of Payload: an argument that is falsy (the empty string) is left out
\* like one that is None.
PayloadOmitsEmpty(partial, final, status) ==
    [k \in {"ts"} \cup (IF partial \notin {None, ""} THEN {"partial"} ELSE {})
                  \cup (IF final \notin {None, ""} THEN {"final"} ELSE {})
                  \cup (IF status \notin {None, ""} THEN {"status"} ELSE {})
       |-> CASE k = "ts" -> clock
             [] k = "partial" -> partial
             [] k = "final" -> final
             [] k = "status" -> status]

Payload(partial, final, status) ==
    [k \in {"ts"} \cup (IF partial # None THEN {"partial"} ELSE {})
                  \cup (IF final # None THEN {"final"} ELSE {})
                  \cup (IF status # None THEN {"status"} ELSE {})
       |-> CASE k = "ts" -> clock
             [] k = "partial" -> partial
             [] k = "final" -> final
             [] k = "status" -> status]

\* The history of publish() calls is kept in the specifications that ask for it.
Logged(log, msg) == IF env.log THEN Append(log, msg) ELSE log

\* Mutant of PutAll: the loop of line 142 stops after the first listener.
PutOne(qs, regs, msg) ==
    [l \in DOMAIN qs |->
       IF regs # {} /\ l = (CHOOSE x \in regs : TRUE) THEN Append(qs[l], msg)
                                                     ELSE qs[l]]

\* Mutant of PutAll: the event goes to the back of the queue of one listener
\* and to the front of the queues of the others.
PutAllFrontOrBack(qs, regs, msg) ==
    [l \in DOMAIN qs |->
       IF l \notin regs THEN qs[l]
       ELSE IF l = (CHOOSE x \in regs : TRUE) THEN Append(qs[l], msg)
       ELSE <<msg>> \o qs[l]]

PutAll(qs, regs, msg) ==
    [l \in DOMAIN qs |-> IF l \in regs THEN Append(qs[l], msg) ELSE qs[l]]

\* Mutant of publish: the event is lost when the stream of a registered
\* listener has been closed by its client.
publishNeedsConnected(partial, final, status) ==
    /\ queues' = IF \A l \in listeners : streams[l].connected
                 THEN PutAll(queues, listeners, Payload(partial, final, status))
                 ELSE queues
    /\ listeners' = listeners
    /\ published' = Logged(published, Payload(partial, final, status))

publish(partial, final, status) ==
    /\ queues' = PutAll(queues, listeners, Payload(partial, final, status))
    /\ listeners' = listeners
    /\ published' = Logged(published, Payload(partial, final, status))

(***************************************************************************)
(* transcribe_array (lines 155-172).  Audio shorter than half a second is  *)
(* answered "" without a call of the engine; otherwise the engine answers  *)
(* any text, or raises.                                                    *)
(***************************************************************************)
TooShort(audio) == 2 * Len(audio) < ASR_SR

TranscribeResults(audio) ==
    IF TooShort(audio) THEN {""} ELSE env.texts

EngineMayRaise(audio) == ~TooShort(audio)

(***************************************************************************)
(* POST /start (lines 218-228).                                            *)
(***************************************************************************)
NewWorker ==
    [pc |-> "w178", now |-> 0, last_p |-> 0, last_f |-> 0,
     latest_text |-> "", wnd |-> None, sess |-> None]

\* Mutant of StartCheck: the test of line 220 is missing.
StartCheckNoTest(t) ==
    /\ starts[t].pc = "idle"
    /\ env.starts > 0
    /\ env' = [env EXCEPT !.starts = @ - 1]
    /\ starts' = [starts EXCEPT ![t] = [pc |-> "s223", res |-> None]]
    /\ last_stop' = None
    /\ UNCHANGED <<sessionVars, ringVars, hubVars, clock, stops, workers, conn,
                   streams, appended, gate_log, probe, jobVars>>

\* line 220: if run_flag.is_set(): return already_running
StartCheck(t) ==
    /\ starts[t].pc = "idle"
    /\ env.starts > 0
    /\ env' = [env EXCEPT !.starts = @ - 1]
    /\ starts' = [starts EXCEPT ![t] =
                    IF run_flag THEN [pc |-> "idle", res |-> "already_running"]
                                ELSE [pc |-> "s223", res |-> None]]
    /\ last_stop' = None
    /\ UNCHANGED <<sessionVars, ringVars, hubVars, clock, stops, workers, conn,
                   streams, appended, gate_log, probe, jobVars>>

\* line 223: ring.buf.clear()
StartClearBuf(t) ==
    /\ starts[t].pc = "s223"
    /\ ring_buf' = <<>>
    /\ appended' = <<>>
    /\ starts' = [starts EXCEPT ![t].pc = "s224"]
    /\ UNCHANGED <<sessionVars, ring_session, hubVars, clock, stops, workers,
                   conn, streams, last_stop, gate_log, probe, jobVars, env>>

\* line 224: ring.session.clear()
StartClearSession(t) ==
    /\ starts[t].pc = "s224"
    /\ ring_session' = <<>>
    /\ starts' = [starts EXCEPT ![t].pc = "s225"]
    /\ UNCHANGED <<sessionVars, ring_buf, hubVars, clock, stops, workers, conn,
                   streams, histVars, jobVars, env>>

\* line 225: run_flag.set()
StartSetFlag(t) ==
    /\ starts[t].pc = "s225"
    /\ run_flag' = TRUE
    /\ last_stop' = None
    /\ starts' = [starts EXCEPT ![t].pc = "s226"]
    /\ UNCHANGED <<final_text, ringVars, hubVars, clock, stops, workers, conn,
                   streams, appended, gate_log, probe, jobVars, env>>

\* line 226: threading.Thread(target=worker_loop, daemon=True).start()
StartThread(t) ==
    /\ starts[t].pc = "s226"
    /\ workers' = Append(workers, NewWorker)
    /\ starts' = [starts EXCEPT ![t].pc = "s227"]
    /\ UNCHANGED <<sessionVars, ringVars, hubVars, clock, stops, conn, streams,
                   histVars, jobVars, env>>

\* lines 227-228: publish(status="started", partial="", final=""); return started
StartPublish(t) ==
    /\ starts[t].pc = "s227"
    /\ publish("", "", "started")
    /\ starts' = [starts EXCEPT ![t] = [pc |-> "idle", res |-> "started"]]
    /\ UNCHANGED <<sessionVars, ringVars, clock, stops, workers, conn, streams,
                   histVars, jobVars, env>>


(***************************************************************************)
(* POST /stop (lines 230-241).  An exception in the handler ends the       *)
(* request with an error response.  pub records the text the request has   *)
(* passed to publish(final=...) at line 239 (None when it has not).        *)
(***************************************************************************)
StopIdle(res) == [pc |-> "idle", sess |-> None, pub |-> None, res |-> res]

\* line 233: if not run_flag.is_set()
StopCheck(t) ==
    /\ stops[t].pc = "idle"
    /\ env.stops > 0
    /\ env' = [env EXCEPT !.stops = @ - 1]
    /\ stops' = [stops EXCEPT ![t] =
                    [pc |-> IF run_flag THEN "t235" ELSE "t234",
                     sess |-> None, pub |-> None, res |-> None]]
    /\ UNCHANGED <<sessionVars, ringVars, hubVars, clock, starts, workers, conn,
                   streams, histVars, jobVars>>

\* line 234: return already_stopped with final_text
StopAlready(t) ==
    /\ stops[t].pc = "t234"
    /\ stops' = [stops EXCEPT ![t] =
                    StopIdle([status |-> "already_stopped", final |-> final_text])]
    /\ UNCHANGED <<sessionVars, ringVars, hubVars, clock, starts, workers, conn,
                   streams, histVars, jobVars, env>>

\* Mutant of StopClearFlag: stop() also resets the audio store.
StopClearFlagAndRing(t) ==
    /\ stops[t].pc = "t235"
    /\ run_flag' = FALSE
    /\ ring_buf' = <<>>
    /\ ring_session' = <<>>
    /\ appended' = <<>>
    /\ stops' = [stops EXCEPT ![t].pc = "t236"]
    /\ UNCHANGED <<final_text, hubVars, clock, starts, workers, conn, streams,
                   last_stop, gate_log, probe, jobVars, env>>

\* line 235: run_flag.clear()
StopClearFlag(t) ==
    /\ stops[t].pc = "t235"
    /\ run_flag' = FALSE
    /\ stops' = [stops EXCEPT ![t].pc = "t236"]
    /\ UNCHANGED <<final_text, ringVars, hubVars, clock, starts, workers, conn,
                   streams, histVars, jobVars, env>>

\* line 236 -> session_audio line 81: if not self.session: return None
StopSessionCheck(t) ==
    /\ stops[t].pc = "t236"
    /\ stops' = [stops EXCEPT ![t].pc =
                    IF ring_session = <<>> THEN "t240" ELSE "t236c"]
    /\ UNCHANGED <<sessionVars, ringVars, hubVars, clock, starts, workers, conn,
                   streams, histVars, jobVars, env>>

\* line 236 -> session_audio line 83, then line 237: len(sess) > ASR_SR * 0.5.
\* np.concatenate of a list emptied since line 81 raises ValueError.
StopSessionConcat(t) ==
    /\ stops[t].pc = "t236c"
    /\ stops' = [stops EXCEPT ![t] =
         IF ring_session = <<>>
         THEN StopIdle([status |-> "error", final |-> None])
         ELSE IF 2 * Len(SessionConcat(ring_session)) > ASR_SR
              THEN [pc |-> "t238", sess |-> SessionConcat(ring_session),
                    pub |-> None, res |-> None]
              ELSE [pc |-> "t240", sess |-> None, pub |-> None, res |-> None]]
    /\ UNCHANGED <<sessionVars, ringVars, hubVars, clock, starts, workers, conn,
                   streams, histVars, jobVars, env>>

\* line 238: final_text = transcribe_array(sess, ASR_SR)
StopDecode(t) ==
    /\ stops[t].pc = "t238"
    /\ \E text \in TranscribeResults(stops[t].sess) :
          final_text' = text
    /\ stops' = [stops EXCEPT ![t].pc = "t239", ![t].sess = None]
    /\ UNCHANGED <<run_flag, ringVars, hubVars, clock, starts, workers, conn,
                   streams, histVars, jobVars, env>>

\* line 238, the engine raising
StopDecodeRaise(t) ==
    /\ stops[t].pc = "t238"
    /\ EngineMayRaise(stops[t].sess)
    /\ env.raises > 0
    /\ env' = [env EXCEPT !.raises = @ - 1]
    /\ stops' = [stops EXCEPT ![t] = StopIdle([status |-> "error", final |-> None])]
    /\ UNCHANGED <<sessionVars, ringVars, hubVars, clock, starts, workers, conn,
                   streams, histVars, jobVars>>

\* line 239: publish(final=final_text)
StopPublishFinal(t) ==
    /\ stops[t].pc = "t239"
    /\ publish(None, final_text, None)
    /\ stops' = [stops EXCEPT ![t].pc = "t240", ![t].pub = final_text]
    /\ UNCHANGED <<sessionVars, ringVars, clock, starts, workers, conn, streams,
                   histVars, jobVars, env>>

\* line 240: publish(status="stopped")
StopPublishStopped(t) ==
    /\ stops[t].pc = "t240"
    /\ publish(None, None, "stopped")
    /\ stops' = [stops EXCEPT ![t].pc = "t241"]
    /\ UNCHANGED <<sessionVars, ringVars, clock, starts, workers, conn, streams,
                   histVars, jobVars, env>>

\* line 241: return stopped with final_text
StopReturn(t) ==
    /\ stops[t].pc = "t241"
    /\ stops' = [stops EXCEPT ![t] =
                    StopIdle([status |-> "stopped", final |-> final_text])]
    /\ last_stop' = final_text
    /\ UNCHANGED <<sessionVars, ringVars, hubVars, clock, starts, workers, conn,
                   streams, appended, gate_log, probe, jobVars, env>>


(***************************************************************************)
(* worker_loop (lines 174-193).  time.sleep(0.03) only delays the next     *)
(* iteration.  An exception that leaves worker_loop ends the thread.       *)
(* A local that the rest of the iteration never reads is set back to its   *)
(* initial value.                                                          *)
(***************************************************************************)
Alive(wk) == wk.pc \notin {"done", "dead"}

\* line 187: if (now - last_f) >= FINAL_UPDATE_SECONDS, else line 193 and on
AfterPartial(wk) ==
    IF wk.now - wk.last_f >= FINAL_UPDATE_TICKS
    THEN [wk EXCEPT !.pc = "w188", !.wnd = None]
    ELSE [wk EXCEPT !.pc = "w178", !.wnd = None, !.now = 0]

\* line 192: last_f = now, then line 193 and on
AfterFinal(wk) ==
    [wk EXCEPT !.pc = "w178", !.last_f = wk.now, !.sess = None, !.now = 0]

\* lines 178-179: while run_flag.is_set(): now = time.time()
WorkerLoop(w) ==
    /\ workers[w].pc = "w178"
    /\ workers' = [workers EXCEPT ![w] =
                     IF run_flag THEN [@ EXCEPT !.pc = "w180", !.now = clock]
                                 ELSE [@ EXCEPT !.pc = "done"]]
    /\ UNCHANGED <<sessionVars, ringVars, hubVars, clock, starts, stops, conn,
                   streams, histVars, jobVars, env>>

\* line 180 -> latest_window line 75: if len(self.buf) < int(0.5 * self.sr)
WorkerWindowCheck(w) ==
    /\ workers[w].pc = "w180"
    /\ workers' = [workers EXCEPT ![w] =
                     IF WindowUnavailable(ring_buf) THEN AfterPartial(@)
                                                    ELSE [@ EXCEPT !.pc = "w180c"]]
    /\ UNCHANGED <<sessionVars, ringVars, hubVars, clock, starts, stops, conn,
                   streams, histVars, jobVars, env>>

\* line 180 -> latest_window lines 77-78, then line 181
WorkerWindowCopy(w) ==
    /\ workers[w].pc = "w180c"
    /\ workers' = [workers EXCEPT ![w] =
                     IF @.now - @.last_p >= STEP_TICKS
                     THEN [@ EXCEPT !.pc = "w182",
                                    !.wnd = WindowOf(ring_buf, WINDOW_SECONDS)]
                     ELSE AfterPartial(@)]
    /\ UNCHANGED <<sessionVars, ringVars, hubVars, clock, starts, stops, conn,
                   streams, histVars, jobVars, env>>

\* Mutant of WorkerPartial: the test "if text:" of line 183 is missing.
WorkerPartialAlways(w) ==
    /\ workers[w].pc = "w182"
    /\ \E text \in TranscribeResults(workers[w].wnd) :
          /\ publish(text, final_text, None)
          /\ workers' = [workers EXCEPT ![w] =
                AfterPartial([workers[w] EXCEPT !.latest_text = text,
                                                !.last_p = workers[w].now])]
    /\ UNCHANGED <<sessionVars, ringVars, clock, starts, stops, conn, streams,
                   histVars, jobVars, env>>

\* lines 182-186: text = transcribe_array(wnd); if text: publish(...); last_p = now
WorkerPartial(w) ==
    /\ workers[w].pc = "w182"
    /\ \E text \in TranscribeResults(workers[w].wnd) :
          /\ IF text # ""
             THEN publish(text, final_text, None)
             ELSE UNCHANGED hubVars
          /\ workers' = [workers EXCEPT ![w] =
                AfterPartial([workers[w] EXCEPT
                                !.latest_text = IF text # "" THEN text ELSE @,
                                !.last_p = workers[w].now])]
    /\ UNCHANGED <<sessionVars, ringVars, clock, starts, stops, conn, streams,
                   histVars, jobVars, env>>

\* line 182, the engine raising: nothing in worker_loop catches it
WorkerPartialRaise(w) ==
    /\ workers[w].pc = "w182"
    /\ EngineMayRaise(workers[w].wnd)
    /\ env.raises > 0
    /\ env' = [env EXCEPT !.raises = @ - 1]
    /\ workers' = [workers EXCEPT ![w] = [@ EXCEPT !.pc = "dead", !.wnd = None]]
    /\ UNCHANGED <<sessionVars, ringVars, hubVars, clock, starts, stops, conn,
                   streams, histVars, jobVars>>

\* line 188 -> session_audio line 81: if not self.session: return None
WorkerSessionCheck(w) ==
    /\ workers[w].pc = "w188"
    /\ workers' = [workers EXCEPT ![w] =
                     IF ring_session = <<>> THEN AfterFinal(@)
                                            ELSE [@ EXCEPT !.pc = "w188c"]]
    /\ UNCHANGED <<sessionVars, ringVars, hubVars, clock, starts, stops, conn,
                   streams, histVars, jobVars, env>>

\* Mutant of WorkerSessionConcat: line 189 tests len(sess) >= ASR_SR * 1.0.
WorkerSessionConcatAtLeast(w) ==
    /\ workers[w].pc = "w188c"
    /\ workers' = [workers EXCEPT ![w] =
         IF ring_session = <<>>
         THEN [@ EXCEPT !.pc = "dead"]
         ELSE IF Len(SessionConcat(ring_session)) >= ASR_SR
              THEN [@ EXCEPT !.pc = "w190", !.sess = SessionConcat(ring_session)]
              ELSE AfterFinal(@)]
    /\ UNCHANGED <<sessionVars, ringVars, hubVars, clock, starts, stops, conn,
                   streams, histVars, jobVars, env>>

\* line 188 -> session_audio line 83, then line 189: len(sess) > ASR_SR * 1.0.
\* np.concatenate of a list emptied since line 81 raises ValueError.
WorkerSessionConcat(w) ==
    /\ workers[w].pc = "w188c"
    /\ workers' = [workers EXCEPT ![w] =
         IF ring_session = <<>>
         THEN [@ EXCEPT !.pc = "dead"]
         ELSE IF Len(SessionConcat(ring_session)) > ASR_SR
              THEN [@ EXCEPT !.pc = "w190", !.sess = SessionConcat(ring_session)]
              ELSE AfterFinal(@)]
    /\ UNCHANGED <<sessionVars, ringVars, hubVars, clock, starts, stops, conn,
                   streams, histVars, jobVars, env>>

\* line 190: final_text = transcribe_array(sess, ASR_SR)
WorkerFinal(w) ==
    /\ workers[w].pc = "w190"
    /\ \E text \in TranscribeResults(workers[w].sess) :
          final_text' = text
    /\ workers' = [workers EXCEPT ![w] = [@ EXCEPT !.pc = "w191", !.sess = None]]
    /\ UNCHANGED <<run_flag, ringVars, hubVars, clock, starts, stops, conn,
                   streams, histVars, jobVars, env>>

\* line 190, the engine raising
WorkerFinalRaise(w) ==
    /\ workers[w].pc = "w190"
    /\ EngineMayRaise(workers[w].sess)
    /\ env.raises > 0
    /\ env' = [env EXCEPT !.raises = @ - 1]
    /\ workers' = [workers EXCEPT ![w] = [@ EXCEPT !.pc = "dead", !.sess = None]]
    /\ UNCHANGED <<sessionVars, ringVars, hubVars, clock, starts, stops, conn,
                   streams, histVars, jobVars>>

\* Mutant of WorkerFinalPublish: the event is published only for a non-empty
\* final text, as line 183 does for partials.
WorkerFinalPublishIfText(w) ==
    /\ workers[w].pc = "w191"
    /\ IF final_text # ""
       THEN publish(workers[w].latest_text, final_text, None)
       ELSE UNCHANGED hubVars
    /\ workers' = [workers EXCEPT ![w] = AfterFinal(@)]
    /\ UNCHANGED <<sessionVars, ringVars, clock, starts, stops, conn, streams,
                   histVars, jobVars, env>>

\* lines 191-192: publish(partial=latest_text, final=final_text); last_f = now
WorkerFinalPublish(w) ==
    /\ workers[w].pc = "w191"
    /\ publish(workers[w].latest_text, final_text, None)
    /\ workers' = [workers EXCEPT ![w] = AfterFinal(@)]
    /\ UNCHANGED <<sessionVars, ringVars, clock, starts, stops, conn, streams,
                   histVars, jobVars, env>>


(***************************************************************************)
(* resample_high_quality (lines 100-117), with SciPy present.  The output  *)
(* of resample_poly(x, up, down) has ceil(len(x) * up / down) samples; its *)
(* i-th sample is modelled by the input sample it is centred on.           *)
(* Fraction(out_sr, 0) raises ZeroDivisionError, and resample_poly raises  *)
(* ValueError for up < 1.                                                  *)
(***************************************************************************)
RECURSIVE GCD(_, _)
GCD(a, b) == IF b = 0 THEN a ELSE GCD(b, a % b)

CeilDiv(a, b) == (a + b - 1) \div b

ResampleRaises(in_sr, out_sr) == in_sr # out_sr /\ in_sr <= 0

resample_high_quality(x, in_sr, out_sr) ==
    IF in_sr = out_sr THEN x
    ELSE LET up == out_sr \div GCD(out_sr, in_sr)
             down == in_sr \div GCD(out_sr, in_sr)
         IN  [i \in 1..CeilDiv(Len(x) * up, down) |-> x[((i - 1) * down) \div up + 1]]

(***************************************************************************)
(* The /ws handler (lines 243-304).  A text message is described by what   *)
(* json.loads and the handshake test make of it, a binary message by its   *)
(* float32 samples.  No code of the server branches on the value of a      *)
(* sample (the VAD and the engine are external), so the samples of a       *)
(* connection are numbered 1, 2, 3, ... in the order sent, which tells     *)
(* every sample from every other.  vad.is_speech is the WebRTC detector:   *)
(* any answer.                                                             *)
(***************************************************************************)
\* line 293: int(VAD_HANGOVER_MS / VAD_FRAME_MS)
HANGOVER_FRAMES == VAD_HANGOVER_MS \div VAD_FRAME_MS

\* Mutant of Forward: the hangover branch is missing.
ForwardVoicedOnly(is_voice, hang) == is_voice

\* lines 290 and 294: if is_voice: ... elif hang > 0: ...
Forward(is_voice, hang) == is_voice \/ hang > 0

\* Mutant of NextHang: line 297 does not count down.
NextHangStuck(is_voice, hang) == IF is_voice THEN HANGOVER_FRAMES ELSE hang

\* lines 293 and 297, after a forwarded frame
NextHang(is_voice, hang) == IF is_voice THEN HANGOVER_FRAMES ELSE hang - 1

TextKinds == {"invalid_json", "not_object", "other_op", "no_rate", "bad_rate", "hello"}

\* lines 267-272
Handshake(in_sr, kind, rate) == IF kind = "hello" THEN rate ELSE in_sr

\* fed is history: the resampled samples of the binary messages so far.
NewConn ==
    [pc |-> "w263", in_sr |-> DEFAULT_IN_SR, hang |-> 0, voiced_any |-> FALSE,
     acc |-> <<>>, chunk |-> None, fed |-> <<>>]

\* line 286: chunk = acc_16k[:frame_16k]
FrameHead(acc) == SubSeq(acc, 1, frame_16k)

\* Mutant of FrameRest: a remainder shorter than a frame is thrown away.
FrameRestDropsShort(acc) ==
    IF Len(acc) - frame_16k < frame_16k THEN <<>>
                                        ELSE SubSeq(acc, frame_16k + 1, Len(acc))

\* line 287: acc_16k = acc_16k[frame_16k:]
FrameRest(acc) == SubSeq(acc, frame_16k + 1, Len(acc))

\* lines 251-260: the connection is accepted; publish(status="mic_connected")
WsConnect ==
    /\ conn.pc = "none"
    /\ env.conns > 0
    /\ env' = [env EXCEPT !.conns = @ - 1]
    /\ publish(None, None, "mic_connected")
    /\ conn' = NewConn
    /\ gate_log' = <<>>
    /\ UNCHANGED <<sessionVars, ringVars, clock, starts, stops, workers,
                   streams, last_stop, appended, probe, jobVars>>

\* lines 263-273: a text message
WsReceiveText ==
    /\ conn.pc = "w263"
    /\ env.hellos > 0
    /\ env' = [env EXCEPT !.hellos = @ - 1]
    /\ \E kind \in TextKinds, rate \in env.rates :
          conn' = [conn EXCEPT !.in_sr = Handshake(@, kind, rate)]
    /\ UNCHANGED <<sessionVars, ringVars, hubVars, clock, starts, stops,
                   workers, streams, histVars, jobVars>>

\* Mutant of WsReceiveBinary: the test of line 277 is missing.
WsReceiveBinaryNoEmptyTest ==
    /\ conn.pc = "w263"
    /\ env.msgs > 0
    /\ \E n \in env.lens :
          LET f32 == [i \in 1..n |-> env.sent + i]
          IN  /\ env' = [env EXCEPT !.msgs = @ - 1, !.sent = @ + n]
              /\ conn' = IF ResampleRaises(conn.in_sr, ASR_SR)
                         THEN [conn EXCEPT !.pc = "dead"]
                         ELSE [conn EXCEPT
                                 !.pc = "w285",
                                 !.acc = @ \o resample_high_quality(f32, conn.in_sr,
                                                                    ASR_SR),
                                 !.fed = @ \o resample_high_quality(f32, conn.in_sr,
                                                                    ASR_SR)]
    /\ UNCHANGED <<sessionVars, ringVars, hubVars, clock, starts, stops,
                   workers, streams, histVars, jobVars>>

\* lines 263-284: a binary message
WsReceiveBinary ==
    /\ conn.pc = "w263"
    /\ env.msgs > 0
    /\ \E n \in env.lens :
          LET f32 == [i \in 1..n |-> env.sent + i]
          IN  /\ env' = [env EXCEPT !.msgs = @ - 1, !.sent = @ + n]
              /\ conn' = IF n = 0 THEN conn
                         ELSE IF ResampleRaises(conn.in_sr, ASR_SR)
                         THEN [conn EXCEPT !.pc = "dead"]
                         ELSE [conn EXCEPT
                                 !.pc = "w285",
                                 !.acc = @ \o resample_high_quality(f32, conn.in_sr,
                                                                    ASR_SR),
                                 !.fed = @ \o resample_high_quality(f32, conn.in_sr,
                                                                    ASR_SR)]
    /\ UNCHANGED <<sessionVars, ringVars, hubVars, clock, starts, stops,
                   workers, streams, histVars, jobVars>>

\* lines 285-297 up to Ring.extend line 70: self.buf.extend(x)
WsFrame ==
    /\ conn.pc = "w285"
    /\ IF Len(conn.acc) >= frame_16k
       THEN \E is_voice \in (IF env.voiced > 0 THEN env.voices ELSE {FALSE}) :
              LET chunk == FrameHead(conn.acc)
                  rest == FrameRest(conn.acc)
                  fwd == Forward(is_voice, conn.hang)
              IN  /\ gate_log' = Append(gate_log, [voice |-> is_voice, fwd |-> fwd,
                                                   chunk |-> chunk])
                  /\ env' = [env EXCEPT !.voiced = IF is_voice THEN @ - 1 ELSE @]
                  /\ IF fwd
                     THEN /\ ring_buf' = DequeExtend(ring_buf, chunk)
                          /\ appended' = appended \o chunk
                          /\ conn' = [conn EXCEPT
                                        !.pc = IF is_voice THEN "w71v" ELSE "w71h",
                                        !.acc = rest, !.chunk = chunk]
                     ELSE /\ conn' = [conn EXCEPT !.acc = rest]
                          /\ UNCHANGED <<ring_buf, appended>>
       ELSE /\ conn' = [conn EXCEPT !.pc = "w263"]
            /\ UNCHANGED <<ring_buf, appended, gate_log, env>>
    /\ UNCHANGED <<sessionVars, ring_session, hubVars, clock, starts, stops,
                   workers, streams, last_stop, probe, jobVars>>

\* Ring.extend line 71: self.session.append(x); then lines 292-293 or 297
WsSessionAppend ==
    /\ conn.pc \in {"w71v", "w71h"}
    /\ ring_session' = SessionAppend(ring_session, conn.chunk)
    /\ conn' = [conn EXCEPT !.pc = "w285", !.chunk = None,
                             !.voiced_any = @ \/ conn.pc = "w71v",
                             !.hang = NextHang(conn.pc = "w71v", @)]
    /\ UNCHANGED <<sessionVars, ring_buf, hubVars, clock, starts, stops,
                   workers, streams, histVars, jobVars, env>>

\* Mutant of WsClose: the test of voiced_any (line 300) is missing.
WsCloseNoVoicedTest ==
    /\ conn.pc = "w263"
    /\ conn' = [conn EXCEPT !.pc = "w301"]
    /\ UNCHANGED <<sessionVars, ringVars, hubVars, clock, starts, stops,
                   workers, streams, histVars, jobVars, env>>

\* lines 263-265 and 300: receive() returns None
WsClose ==
    /\ conn.pc = "w263"
    /\ conn' = [conn EXCEPT !.pc = IF conn.voiced_any THEN "w301" ELSE "done"]
    /\ UNCHANGED <<sessionVars, ringVars, hubVars, clock, starts, stops,
                   workers, streams, histVars, jobVars, env>>

\* line 301 -> session_audio line 81
WsSessionCheck ==
    /\ conn.pc = "w301"
    /\ conn' = [conn EXCEPT !.pc = IF ring_session = <<>> THEN "done" ELSE "w301c"]
    /\ UNCHANGED <<sessionVars, ringVars, hubVars, clock, starts, stops,
                   workers, streams, histVars, jobVars, env>>

\* line 301 -> session_audio line 83, then line 302
WsSessionConcat ==
    /\ conn.pc = "w301c"
    /\ conn' = IF ring_session = <<>>
               THEN [conn EXCEPT !.pc = "dead"]
               ELSE IF 2 * Len(SessionConcat(ring_session)) > ASR_SR
                    THEN [conn EXCEPT !.pc = "w303",
                                      !.chunk = SessionConcat(ring_session)]
                    ELSE [conn EXCEPT !.pc = "done"]
    /\ UNCHANGED <<sessionVars, ringVars, hubVars, clock, starts, stops,
                   workers, streams, histVars, jobVars, env>>

\* lines 303-304: text = transcribe_array(sess, ASR_SR); publish(final=text)
WsFlush ==
    /\ conn.pc = "w303"
    /\ \E text \in TranscribeResults(conn.chunk) : publish(None, text, None)
    /\ conn' = [conn EXCEPT !.pc = "done", !.chunk = None]
    /\ UNCHANGED <<sessionVars, ringVars, clock, starts, stops, workers,
                   streams, histVars, jobVars, env>>

\* line 303, the engine raising
WsFlushRaise ==
    /\ conn.pc = "w303"
    /\ EngineMayRaise(conn.chunk)
    /\ env.raises > 0
    /\ env' = [env EXCEPT !.raises = @ - 1]
    /\ conn' = [conn EXCEPT !.pc = "dead", !.chunk = None]
    /\ UNCHANGED <<sessionVars, ringVars, hubVars, clock, starts, stops,
                   workers, streams, histVars, jobVars>>


(***************************************************************************)
(* GET /events (lines 205-216) and the listener registry (lines 122-133).  *)
(* The generator stream(q) is driven by the server: it runs to its next    *)
(* yield each time the server wants a chunk, and the server closes it,     *)
(* which runs its finally clause, when writing a chunk to the client fails.*)
(* backlog records how many events were queued when the client went away,  *)
(* since how many events had been published when the listener registered.  *)
(***************************************************************************)
\* lines 125-129
register_listener(l) ==
    /\ listeners' = listeners \cup {l}
    /\ queues' = [queues EXCEPT ![l] = <<>>]
    /\ published' = published

\* lines 131-133
remove_listener(l) ==
    /\ listeners' = listeners \ {l}
    /\ queues' = queues
    /\ published' = published

\* lines 214-215: q = register_listener(); the Response is returned
SseRequest(l) ==
    /\ streams[l].pc = "none"
    /\ env.listens > 0
    /\ env' = [env EXCEPT !.listens = @ - 1]
    /\ register_listener(l)
    /\ streams' = [streams EXCEPT ![l] = [pc |-> "created", connected |-> TRUE,
                                          out |-> <<>>, backlog |-> 0,
                                          since |-> Len(published)]]
    /\ UNCHANGED <<sessionVars, ringVars, clock, starts, stops, workers, conn,
                   histVars, jobVars>>

\* lines 208-209: yield ":ok\n\n", written to the client
StreamOk(l) ==
    /\ streams[l].pc = "created"
    /\ IF streams[l].connected
       THEN /\ streams' = [streams EXCEPT ![l].pc = "get", ![l].out = Append(@, ":ok")]
            /\ UNCHANGED hubVars
       ELSE /\ streams' = [streams EXCEPT ![l].pc = "closed"]
            /\ remove_listener(l)
    /\ UNCHANGED <<sessionVars, ringVars, clock, starts, stops, workers, conn,
                   histVars, jobVars, env>>

\* Mutant of StreamData: q.get() takes the newest event of the queue.
StreamDataNewestFirst(l) ==
    /\ streams[l].pc = "get"
    /\ queues[l] # <<>>
    /\ IF streams[l].connected
       THEN /\ streams' = [streams EXCEPT
                             ![l].out = Append(@, queues[l][Len(queues[l])])]
            /\ queues' = [queues EXCEPT ![l] = SubSeq(@, 1, Len(@) - 1)]
            /\ listeners' = listeners
       ELSE /\ streams' = [streams EXCEPT ![l].pc = "closed"]
            /\ listeners' = listeners \ {l}
            /\ queues' = [queues EXCEPT ![l] = Tail(@)]
    /\ published' = published
    /\ UNCHANGED <<sessionVars, ringVars, clock, starts, stops, workers, conn,
                   histVars, jobVars, env>>

\* lines 210-213: yield f"data: {q.get()}\n\n", written to the client
StreamData(l) ==
    /\ streams[l].pc = "get"
    /\ queues[l] # <<>>
    /\ IF streams[l].connected
       THEN /\ streams' = [streams EXCEPT ![l].out = Append(@, Head(queues[l]))]
            /\ queues' = [queues EXCEPT ![l] = Tail(@)]
            /\ listeners' = listeners
       ELSE /\ streams' = [streams EXCEPT ![l].pc = "closed"]
            /\ listeners' = listeners \ {l}
            /\ queues' = [queues EXCEPT ![l] = Tail(@)]
    /\ published' = published
    /\ UNCHANGED <<sessionVars, ringVars, clock, starts, stops, workers, conn,
                   histVars, jobVars, env>>

\* the client of the stream goes away
ClientDisconnect(l) ==
    /\ streams[l].pc \in {"created", "get"}
    /\ streams[l].connected
    /\ streams' = [streams EXCEPT ![l].connected = FALSE,
                                  ![l].backlog = Len(queues[l])]
    /\ UNCHANGED <<sessionVars, ringVars, hubVars, clock, starts, stops,
                   workers, conn, histVars, jobVars, env>>


(***************************************************************************)
(* Direct calls of the functions of the module, as a test of the function  *)
(* would make them, on the state the server is in.                         *)
(***************************************************************************)
MaxWindowSeconds == 3

\* ring.latest_window(seconds), lines 73-78
LatestWindowCall ==
    /\ \E seconds \in 0..MaxWindowSeconds :
          probe' = [fn |-> "latest_window", buf |-> ring_buf, seconds |-> seconds,
                    res |-> latest_window(ring_buf, seconds)]
    /\ UNCHANGED <<sessionVars, ringVars, hubVars, clock, threadVars, last_stop,
                   appended, gate_log, jobVars, env>>

(***************************************************************************)
(* Time.                                                                   *)
(***************************************************************************)
Tick ==
    /\ env.ticks > 0
    /\ env' = [env EXCEPT !.ticks = @ - 1]
    /\ clock' = clock + 1
    /\ UNCHANGED <<sessionVars, ringVars, hubVars, threadVars, histVars,
                   jobVars>>

(***************************************************************************)
(* The state after the module is loaded (lines 85, 122, 152-153), before   *)
(* any request.  time.time() is far larger than either period, so both     *)
(* timers of a new worker (last_p = last_f = 0.0) are due.                 *)
(***************************************************************************)
ClockStart == STEP_TICKS + FINAL_UPDATE_TICKS

NoCall == [fn |-> "none"]

\* nstart and nstop: how many /start and /stop requests the server (threaded=True,
\* line 308) may be serving at a time.
InitSession(nstart, nstop) ==
    /\ run_flag = FALSE
    /\ final_text = ""
    /\ ring_buf = <<>>
    /\ ring_session = <<>>
    /\ clock = ClockStart
    /\ starts = [t \in 1..nstart |-> [pc |-> "idle", res |-> None]]
    /\ stops = [t \in 1..nstop |-> StopIdle(None)]
    /\ workers = <<>>
    /\ conn = [NewConn EXCEPT !.pc = "none"]
    /\ last_stop = None
    /\ appended = <<>>
    /\ gate_log = <<>>
    /\ probe = NoCall

\* The listeners in regs have connected and been sent ":ok"; the others have not
\* connected yet.
InitHub(regs) ==
    /\ listeners = regs
    /\ queues = [l \in ListenerIds |-> <<>>]
    /\ published = <<>>
    /\ streams = [l \in ListenerIds |->
                    IF l \in regs
                    THEN [pc |-> "get", connected |-> TRUE, out |-> <<":ok">>,
                          backlog |-> 0, since |-> 0]
                    ELSE [pc |-> "none", connected |-> FALSE, out |-> <<>>,
                          backlog |-> 0, since |-> 0]]

\* src/main2.py line 150: JOBS = {}; no background task yet
InitJobs ==
    /\ JOBS = <<>>
    /\ tasks = <<>>

StartNext ==
    \/ \E t \in DOMAIN starts : StartCheck(t)
    \/ \E t \in DOMAIN starts : StartClearBuf(t)
    \/ \E t \in DOMAIN starts : StartClearSession(t)
    \/ \E t \in DOMAIN starts : StartSetFlag(t)
    \/ \E t \in DOMAIN starts : StartThread(t)
    \/ \E t \in DOMAIN starts : StartPublish(t)

\* stop() on a session without audio
StopQuietNext ==
    \/ \E t \in DOMAIN stops : StopCheck(t)
    \/ \E t \in DOMAIN stops : StopAlready(t)
    \/ \E t \in DOMAIN stops : StopClearFlag(t)
    \/ \E t \in DOMAIN stops : StopSessionCheck(t)
    \/ \E t \in DOMAIN stops : StopPublishStopped(t)
    \/ \E t \in DOMAIN stops : StopReturn(t)

StopNext ==
    \/ StopQuietNext
    \/ \E t \in DOMAIN stops : StopSessionConcat(t)
    \/ \E t \in DOMAIN stops : StopDecode(t)
    \/ \E t \in DOMAIN stops : StopDecodeRaise(t)
    \/ \E t \in DOMAIN stops : StopPublishFinal(t)

\* worker_loop on a session without audio
WorkerQuietNext ==
    \/ \E w \in DOMAIN workers : WorkerLoop(w)
    \/ \E w \in DOMAIN workers : WorkerWindowCheck(w)
    \/ \E w \in DOMAIN workers : WorkerSessionCheck(w)

\* worker_loop on audio too short for a final decode
WorkerPartialNext ==
    \/ WorkerQuietNext
    \/ \E w \in DOMAIN workers : WorkerWindowCopy(w)
    \/ \E w \in DOMAIN workers : WorkerPartial(w)
    \/ \E w \in DOMAIN workers : WorkerPartialRaise(w)
    \/ \E w \in DOMAIN workers : WorkerSessionConcat(w)

WorkerNext ==
    \/ WorkerPartialNext
    \/ \E w \in DOMAIN workers : WorkerFinal(w)
    \/ \E w \in DOMAIN workers : WorkerFinalRaise(w)
    \/ \E w \in DOMAIN workers : WorkerFinalPublish(w)

\* the connection up to its close
WsIngestNext ==
    \/ WsConnect
    \/ WsReceiveText
    \/ WsReceiveBinary
    \/ WsFrame
    \/ WsSessionAppend
    \/ WsClose

WsNext ==
    \/ WsIngestNext
    \/ WsSessionCheck
    \/ WsSessionConcat
    \/ WsFlush
    \/ WsFlushRaise

SseNext ==
    \/ \E l \in ListenerIds : SseRequest(l)
    \/ \E l \in ListenerIds : StreamOk(l)
    \/ \E l \in ListenerIds : StreamData(l)
    \/ \E l \in ListenerIds : ClientDisconnect(l)

NextSession == StartNext \/ StopNext \/ WorkerNext \/ WsNext

Next == NextSession \/ SseNext \/ Tick

NextControl == StartNext \/ StopQuietNext \/ WorkerQuietNext

NextStartIngest == StartNext \/ WorkerNext \/ WsNext

NextIngest == WsNext

\* every thread of the server, the engine answering every decode and time
\* standing still; the /events client reads nothing
NextClear ==
    \/ StartNext
    \/ StopQuietNext
    \/ \E t \in DOMAIN stops : StopSessionConcat(t)
    \/ \E t \in DOMAIN stops : StopDecode(t)
    \/ \E t \in DOMAIN stops : StopPublishFinal(t)
    \/ WorkerQuietNext
    \/ \E w \in DOMAIN workers : WorkerWindowCopy(w)
    \/ \E w \in DOMAIN workers : WorkerPartial(w)
    \/ \E w \in DOMAIN workers : WorkerSessionConcat(w)
    \/ WsConnect
    \/ WsReceiveBinary
    \/ WsFrame
    \/ WsSessionAppend
    \/ WsClose
    \/ WsSessionCheck
    \/ WsSessionConcat
    \/ WsFlush
    \/ SseRequest(1)
    \/ StreamOk(1)
    \/ ClientDisconnect(1)

\* every thread that publishes, the engine answering every decode and time
\* standing still
NextEvents ==
    \/ StartNext
    \/ StopQuietNext
    \/ \E t \in DOMAIN stops : StopSessionConcat(t)
    \/ \E t \in DOMAIN stops : StopDecode(t)
    \/ \E t \in DOMAIN stops : StopPublishFinal(t)
    \/ WorkerQuietNext
    \/ \E w \in DOMAIN workers : WorkerWindowCopy(w)
    \/ \E w \in DOMAIN workers : WorkerPartial(w)
    \/ \E w \in DOMAIN workers : WorkerSessionConcat(w)
    \/ \E w \in DOMAIN workers : WorkerFinal(w)
    \/ \E w \in DOMAIN workers : WorkerFinalPublish(w)
    \/ WsConnect
    \/ WsReceiveBinary
    \/ WsFrame
    \/ WsSessionAppend
    \/ WsClose
    \/ WsSessionCheck
    \/ WsSessionConcat
    \/ WsFlush

\* one session with its scheduler, audio arriving and time passing
NextSched ==
    \/ StartNext
    \/ WorkerNext
    \/ WsConnect
    \/ WsReceiveBinary
    \/ WsFrame
    \/ WsSessionAppend
    \/ Tick

NextHub == StartNext \/ WorkerQuietNext \/ WsConnect \/ SseNext

\* /start requests and a connection whose client sends audio and stays
NextRing ==
    \/ StartNext
    \/ WorkerNext
    \/ WsConnect
    \/ WsReceiveBinary
    \/ WsFrame
    \/ WsSessionAppend

(***************************************************************************)
(* Spec: one session under /start and /stop requests, with one ingestion   *)
(* connection delivering voiced audio and one listener that is slow to     *)
(* read.                                                                   *)
(***************************************************************************)
MaxStarts == 1
MaxStops == 2
MaxMsgs == 1
MaxRaises == 1

Init ==
    /\ InitSession(1, 1)
    /\ InitHub({1})
    /\ InitJobs
    /\ env = [starts |-> MaxStarts, stops |-> MaxStops, conns |-> 1,
              hellos |-> 1, rates |-> {DEFAULT_IN_SR},
              msgs |-> MaxMsgs, lens |-> {6 * frame_16k}, sent |-> 0,
              voices |-> {TRUE}, voiced |-> 2 * MaxMsgs,
              texts |-> {"", "a"}, raises |-> MaxRaises, ticks |-> 0,
              listens |-> 0, log |-> FALSE]

Spec == Init /\ [][NextSession]_vars

(***************************************************************************)
(* SpecRace: /start requests served concurrently, and a /stop; no audio.   *)
(***************************************************************************)
RaceThreads == 2
RaceStarts == 2
RaceStops == 1

InitRace ==
    /\ InitSession(RaceThreads, 1)
    /\ InitHub({1})
    /\ InitJobs
    /\ env = [starts |-> RaceStarts, stops |-> RaceStops, conns |-> 0,
              hellos |-> 0, rates |-> {DEFAULT_IN_SR},
              msgs |-> 0, lens |-> {}, sent |-> 0,
              voices |-> {}, voiced |-> 0,
              texts |-> {"", "a"}, raises |-> 1, ticks |-> 0,
              listens |-> 0, log |-> FALSE]

SpecRace == InitRace /\ [][NextControl]_vars

(***************************************************************************)
(* SpecIdem: repeated /start requests on a session nobody stops, while a   *)
(* connection delivers audio and a listener is registered.                 *)
(***************************************************************************)
IdemStarts == 2
IdemMsgs == 2

InitIdem ==
    /\ InitSession(1, 1)
    /\ InitHub({1})
    /\ InitJobs
    /\ env = [starts |-> IdemStarts, stops |-> 0, conns |-> 1,
              hellos |-> 1, rates |-> {DEFAULT_IN_SR},
              msgs |-> IdemMsgs, lens |-> {3 * frame_16k}, sent |-> 0,
              voices |-> {TRUE}, voiced |-> IdemMsgs,
              texts |-> {"", "a"}, raises |-> 1, ticks |-> 0,
              listens |-> 0, log |-> FALSE]

SpecIdem == InitIdem /\ [][NextStartIngest]_vars

(***************************************************************************)
(* SpecGate: one connection alone, the session never started: frames of    *)
(* speech and of silence through the VAD gate.                             *)
(***************************************************************************)
GateMsgs == 18
GateVoiced == 2

InitGate ==
    /\ InitSession(1, 1)
    /\ InitHub({})
    /\ InitJobs
    /\ env = [starts |-> 0, stops |-> 0, conns |-> 1,
              hellos |-> 1, rates |-> {DEFAULT_IN_SR},
              msgs |-> GateMsgs, lens |-> {0, 3 * frame_16k}, sent |-> 0,
              voices |-> BOOLEAN, voiced |-> GateVoiced,
              texts |-> {"", "a"}, raises |-> 1, ticks |-> 0,
              listens |-> 0, log |-> FALSE]

SpecGate == InitGate /\ [][NextIngest]_vars

(***************************************************************************)
(* SpecRing: a connection feeding the Ring while two /start requests,      *)
(* served concurrently, clear it.                                          *)
(***************************************************************************)
RingMsgs == 3
RingStarts == 2

InitRing ==
    /\ InitSession(2, 1)
    /\ InitHub({})
    /\ InitJobs
    /\ env = [starts |-> RingStarts, stops |-> 0, conns |-> 1,
              hellos |-> 0, rates |-> {DEFAULT_IN_SR},
              msgs |-> RingMsgs, lens |-> {3 * frame_16k}, sent |-> 0,
              voices |-> {TRUE}, voiced |-> RingMsgs,
              texts |-> {"", "a"}, raises |-> 1, ticks |-> 0,
              listens |-> 0, log |-> FALSE]

SpecRing == InitRing /\ [][NextRing]_vars

(***************************************************************************)
(* SpecHub: /events clients that connect, read and go away while a /start   *)
(* request and a /ws connection that stays open publish status events.     *)
(* SpecHubFair adds that no thread of the server stops for ever while it   *)
(* could go on, and that the requests that publish do arrive; the /events  *)
(* clients are under no obligation.                                        *)
(***************************************************************************)
HubStarts == 1
HubConns == 1
HubListens == 2

InitHubSpec ==
    /\ InitSession(1, 1)
    /\ InitHub({})
    /\ InitJobs
    /\ env = [starts |-> HubStarts, stops |-> 0, conns |-> HubConns,
              hellos |-> 0, rates |-> {DEFAULT_IN_SR},
              msgs |-> 0, lens |-> {}, sent |-> 0,
              voices |-> {}, voiced |-> 0,
              texts |-> {"", "a"}, raises |-> 0, ticks |-> 0,
              listens |-> HubListens, log |-> FALSE]

SpecHub == InitHubSpec /\ [][NextHub]_vars

SpecHubFair ==
    /\ SpecHub
    /\ WF_vars(StartNext)
    /\ WF_vars(WorkerQuietNext)
    /\ WF_vars(WsConnect)
    /\ \A l \in ListenerIds : WF_vars(StreamOk(l)) /\ WF_vars(StreamData(l))

(***************************************************************************)
(* SpecSched: one session that is started and never stopped; its           *)
(* worker_loop runs while time passes and a connection delivers voiced     *)
(* audio, one frame a message; one listener is registered.                 *)
(***************************************************************************)
SchedMsgs == 2
SchedTicks == 2

InitSched ==
    /\ InitSession(1, 1)
    /\ InitHub({1})
    /\ InitJobs
    /\ env = [starts |-> 1, stops |-> 0, conns |-> 1,
              hellos |-> 0, rates |-> {DEFAULT_IN_SR},
              msgs |-> SchedMsgs, lens |-> {3 * frame_16k}, sent |-> 0,
              voices |-> {TRUE}, voiced |-> SchedMsgs,
              texts |-> {"", "a"}, raises |-> 1, ticks |-> SchedTicks,
              listens |-> 0, log |-> FALSE]

SpecSched == InitSched /\ [][NextSched]_vars

(***************************************************************************)
(* SpecRate: one connection alone whose client sends text messages, among  *)
(* them hello handshakes with a sample rate of 0, 16000 (ASR_SR) or 48000, *)
(* before and between its binary messages.                                 *)
(***************************************************************************)
RateHellos == 2
RateMsgs == 2

InitRate ==
    /\ InitSession(1, 1)
    /\ InitHub({})
    /\ InitJobs
    /\ env = [starts |-> 0, stops |-> 0, conns |-> 1,
              hellos |-> RateHellos, rates |-> {0, ASR_SR, DEFAULT_IN_SR},
              msgs |-> RateMsgs, lens |-> {3 * frame_16k}, sent |-> 0,
              voices |-> BOOLEAN, voiced |-> RateMsgs,
              texts |-> {"", "a"}, raises |-> 1, ticks |-> 0,
              listens |-> 0, log |-> FALSE]

SpecRate == InitRate /\ [][NextIngest]_vars

(***************************************************************************)
(* SpecLive: one session that is started and may be stopped, while a       *)
(* connection delivers one second of voiced audio and time passes; the     *)
(* engine answers with text, or raises once.  SpecLiveFair adds that no    *)
(* thread of the server stops for ever while it could go on, that the      *)
(* /start request and the audio do arrive and that time passes; whether a  *)
(* /stop request arrives is left open.                                     *)
(***************************************************************************)
LiveTicks == 1
LiveRaises == 1

NextLive ==
    \/ StartNext
    \/ StopNext
    \/ WorkerPartialNext
    \/ WsConnect
    \/ WsReceiveBinary
    \/ WsFrame
    \/ WsSessionAppend
    \/ Tick

InitLive ==
    /\ InitSession(1, 1)
    /\ InitHub({1})
    /\ InitJobs
    /\ env = [starts |-> 1, stops |-> 1, conns |-> 1,
              hellos |-> 0, rates |-> {DEFAULT_IN_SR},
              msgs |-> 1, lens |-> {3 * frame_16k}, sent |-> 0,
              voices |-> {TRUE}, voiced |-> 1,
              texts |-> {"a"}, raises |-> LiveRaises, ticks |-> LiveTicks,
              listens |-> 0, log |-> FALSE]

SpecLive == InitLive /\ [][NextLive]_vars

SpecLiveFair ==
    /\ SpecLive
    /\ WF_vars(StartNext)
    /\ WF_vars(WorkerPartialNext)
    /\ WF_vars(WsConnect \/ WsReceiveBinary \/ WsFrame \/ WsSessionAppend)
    /\ WF_vars(Tick)
    /\ WF_vars((\E t \in DOMAIN stops : stops[t].pc # "idle") /\ StopNext)

(***************************************************************************)
(* SpecOrder: /events clients that connect and read while a /start         *)
(* request, /stop requests and a /ws connection, served concurrently,      *)
(* publish status events; the history of publish() calls is kept.          *)
(***************************************************************************)
OrderStops == 1
OrderListens == 2

NextOrder ==
    \/ StartNext
    \/ StopQuietNext
    \/ WorkerQuietNext
    \/ WsConnect
    \/ \E l \in ListenerIds : SseRequest(l)
    \/ \E l \in ListenerIds : StreamOk(l)
    \/ \E l \in ListenerIds : StreamData(l)

InitOrder ==
    /\ InitSession(1, 1)
    /\ InitHub({})
    /\ InitJobs
    /\ env = [starts |-> 1, stops |-> OrderStops, conns |-> 1,
              hellos |-> 0, rates |-> {DEFAULT_IN_SR},
              msgs |-> 0, lens |-> {}, sent |-> 0,
              voices |-> {}, voiced |-> 0,
              texts |-> {"", "a"}, raises |-> 0, ticks |-> 0,
              listens |-> OrderListens, log |-> TRUE]

SpecOrder == InitOrder /\ [][NextOrder]_vars

(***************************************************************************)
(* SpecWindow: latest_window called with windows of 0 s and more on the    *)
(* ring as a connection fills it with voiced audio, a frame at a time.     *)
(***************************************************************************)
WindowMsgs == 3

NextWindow ==
    \/ WsConnect
    \/ WsReceiveBinary
    \/ WsFrame
    \/ WsSessionAppend
    \/ LatestWindowCall

InitWindow ==
    /\ InitSession(1, 1)
    /\ InitHub({})
    /\ InitJobs
    /\ env = [starts |-> 0, stops |-> 0, conns |-> 1,
              hellos |-> 0, rates |-> {DEFAULT_IN_SR},
              msgs |-> WindowMsgs, lens |-> {3 * frame_16k}, sent |-> 0,
              voices |-> {TRUE}, voiced |-> WindowMsgs,
              texts |-> {"", "a"}, raises |-> 0, ticks |-> 0,
              listens |-> 0, log |-> FALSE]

SpecWindow == InitWindow /\ [][NextWindow]_vars

(***************************************************************************)
(* SpecClear: the whole server on a small workload: a session is started   *)
(* and stopped while a connection delivers voiced audio and closes, the    *)
(* scheduler decodes, and an /events client comes and goes.                *)
(***************************************************************************)
InitClear ==
    /\ InitSession(1, 1)
    /\ InitHub({})
    /\ InitJobs
    /\ env = [starts |-> 1, stops |-> 1, conns |-> 1,
              hellos |-> 0, rates |-> {DEFAULT_IN_SR},
              msgs |-> 1, lens |-> {3 * frame_16k}, sent |-> 0,
              voices |-> {TRUE}, voiced |-> 1,
              texts |-> {"a"}, raises |-> 0, ticks |-> 0,
              listens |-> 1, log |-> FALSE]

SpecClear == InitClear /\ [][NextClear]_vars

(***************************************************************************)
(* SpecFrame: one connection alone whose client sends binary messages of   *)
(* no samples, of half a frame and of a frame and a half (at the default   *)
(* rate), with at most one text message, which may be a hello with a       *)
(* sample rate of 0, 16000 (ASR_SR) or 48000.                              *)
(***************************************************************************)
FrameMsgs == 3
FrameVoiced == 2

InitFrame ==
    /\ InitSession(1, 1)
    /\ InitHub({})
    /\ InitJobs
    /\ env = [starts |-> 0, stops |-> 0, conns |-> 1,
              hellos |-> 1, rates |-> {0, ASR_SR, DEFAULT_IN_SR},
              msgs |-> FrameMsgs,
              lens |-> {0, DEFAULT_IN_SR \div 2, (3 * DEFAULT_IN_SR) \div 2},
              sent |-> 0,
              voices |-> BOOLEAN, voiced |-> FrameVoiced,
              texts |-> {"", "a"}, raises |-> 1, ticks |-> 0,
              listens |-> 0, log |-> FALSE]

SpecFrame == InitFrame /\ [][NextIngest]_vars

(***************************************************************************)
(* SpecEvents: every caller of publish() at work: a session is started and *)
(* stopped, its scheduler runs partial and final decodes, and a connection *)
(* delivers two seconds of voiced audio and closes; one listener is        *)
(* registered and reads nothing.                                           *)
(***************************************************************************)
EventsMsgs == 1

InitEvents ==
    /\ InitSession(1, 1)
    /\ InitHub({1})
    /\ InitJobs
    /\ env = [starts |-> 1, stops |-> 1, conns |-> 1,
              hellos |-> 0, rates |-> {DEFAULT_IN_SR},
              msgs |-> EventsMsgs, lens |-> {6 * frame_16k}, sent |-> 0,
              voices |-> {TRUE}, voiced |-> 2 * EventsMsgs,
              texts |-> {"", "a"}, raises |-> 0, ticks |-> 0,
              listens |-> 0, log |-> FALSE]

SpecEvents == InitEvents /\ [][NextEvents]_vars

(***************************************************************************)
(* SpecAgain: a session is started, stopped and started again by requests  *)
(* served one at a time per route, while a connection delivers one second  *)
(* of voiced audio; the engine answers every decode.                       *)
(***************************************************************************)
AgainStarts == 2
AgainStops == 1

NextAgain ==
    \/ StartNext
    \/ StopQuietNext
    \/ \E t \in DOMAIN stops : StopSessionConcat(t)
    \/ \E t \in DOMAIN stops : StopDecode(t)
    \/ \E t \in DOMAIN stops : StopPublishFinal(t)
    \/ WorkerQuietNext
    \/ \E w \in DOMAIN workers : WorkerWindowCopy(w)
    \/ \E w \in DOMAIN workers : WorkerPartial(w)
    \/ \E w \in DOMAIN workers : WorkerSessionConcat(w)
    \/ WsConnect
    \/ WsReceiveBinary
    \/ WsFrame
    \/ WsSessionAppend

InitAgain ==
    /\ InitSession(1, 1)
    /\ InitHub({})
    /\ InitJobs
    /\ env = [starts |-> AgainStarts, stops |-> AgainStops, conns |-> 1,
              hellos |-> 0, rates |-> {DEFAULT_IN_SR},
              msgs |-> 1, lens |-> {3 * frame_16k}, sent |-> 0,
              voices |-> {TRUE}, voiced |-> 1,
              texts |-> {"", "a"}, raises |-> 0, ticks |-> 0,
              listens |-> 0, log |-> FALSE]

SpecAgain == InitAgain /\ [][NextAgain]_vars

(***************************************************************************)
(* The video generation pipeline (src/main2.py; the same functions are in  *)
(* src/main_gpt5_64.py).  A directory of frames is a function from the     *)
(* numbers of its files 000001.png, 000002.png, ... to their contents; the *)
(* n-th frame that ffmpeg extracts from the video of scene c has the       *)
(* content <<c, n>>.  A path inside a candidates directory is the number   *)
(* of its file, and NoPath is the empty string.                            *)
(***************************************************************************)
TARGET_FRAMES == 192
CANDIDATE_START == 189
CANDIDATE_END == 192

NoPath == 0

EmptyDir == <<>>

\* shutil.copyfile(src, dst) into the file number w of a directory
WriteFile(dir, w, content) ==
    [k \in DOMAIN dir \cup {w} |-> IF k = w THEN content ELSE dir[k]]

\* ffmpeg -i in_video -vf fps=24 out_dir/%06d.png (lines 165-171): the frames
\* 1..count of the video are written over what out_dir holds
FfmpegFrames(dir, scene, count) ==
    [k \in DOMAIN dir \cup (1..count) |-> IF k <= count THEN <<scene, k>> ELSE dir[k]]

\* lines 172-182 on the files of out_dir, sorted by name
CoerceFrames(dir) ==
    LET count == Cardinality(DOMAIN dir)
        last == CHOOSE k \in DOMAIN dir : \A m \in DOMAIN dir : m <= k
    IN  IF count < TARGET_FRAMES /\ count > 0
        THEN [k \in DOMAIN dir \cup ((count + 1)..TARGET_FRAMES) |->
                IF k \in (count + 1)..TARGET_FRAMES THEN dir[last] ELSE dir[k]]
        ELSE IF count > TARGET_FRAMES
        THEN [k \in DOMAIN dir \ ((TARGET_FRAMES + 1)..count) |-> dir[k]]
        ELSE dir

\* Mutant of RemoveFrames: the old frames are left in out_dir.
RemoveFramesKeeps(dir) == dir

\* lines 163-164: for p in glob("*.png"): os.remove(p)
RemoveFrames(dir) == EmptyDir

\* extract_frames_exact_192 (lines 159-182) on a video of count frames, ffmpeg
\* succeeding
extract_frames_exact_192(dir, scene, count) ==
    CoerceFrames(FfmpegFrames(RemoveFrames(dir), scene, count))

\* copy_frames (lines 212-217).  copyfile raises FileNotFoundError for a source
\* file that does not exist; the files before it have been copied by then.
copy_frames(src, dst, start_idx, end_idx, start_at) ==
    LET missing == {i \in start_idx..end_idx : i \notin DOMAIN src}
        stop == IF missing = {} THEN end_idx + 1
                ELSE CHOOSE i \in missing : \A m \in missing : i <= m
        n == IF stop > start_idx THEN stop - start_idx ELSE 0
    IN  [dir |-> [k \in DOMAIN dst \cup (start_at..(start_at + n - 1)) |->
                     IF k \in start_at..(start_at + n - 1)
                     THEN src[start_idx + (k - start_at)] ELSE dst[k]],
         w |-> start_at + n,
         raised |-> missing # {}]

\* line 233: s = calculate_blur_score(dst) or -1.0.  blur is what
\* calculate_blur_score (lines 219-223) answers: None (none is TRUE) for a file
\* that cannot be read, else the variance v of the Laplacian, a float >= 0 (an
\* integer here).
ScoreOr(blur) == IF blur.none \/ blur.v = 0 THEN -1 ELSE blur.v

\* pick_best_from_candidates (lines 225-236), the loop from candidate i on with
\* the best so far; blurs gives calculate_blur_score of every candidate
RECURSIVE PickLoop(_, _, _, _, _)
PickLoop(frames, blurs, i, end_idx, best) ==
    IF i > end_idx THEN best
    ELSE IF i \notin DOMAIN frames THEN [best EXCEPT !.raised = TRUE]
    ELSE LET sc == ScoreOr(blurs[i])
             copied == [best EXCEPT !.cand = WriteFile(@, i, frames[i])]
         IN  PickLoop(frames, blurs, i + 1, end_idx,
                      IF sc > best.best_score
                      THEN [copied EXCEPT !.best_idx = i, !.best_score = sc,
                                          !.best_path = i]
                      ELSE copied)

pick_best_from_candidates(frames, cand, blurs, start_idx, end_idx) ==
    PickLoop(frames, blurs, start_idx, end_idx,
             [best_idx |-> start_idx, best_score |-> -1, best_path |-> NoPath,
              cand |-> cand, raised |-> FALSE])

(***************************************************************************)
(* POST /generate (lines 443-495) and process_job (lines 276-431), which   *)
(* the server runs in a thread of its pool after the response.  A status   *)
(* is a tuple: <<"queued">>, ..., and <<"generating", i, total>> for the   *)
(* string f"generating {i}/{total}".  An image URL is a tuple as well:     *)
(* <<>> for None, <<"product">>, and <<"cont", i, kind>> for the           *)
(* continuity frame uploaded for scene i.  The errors lists hold the kind  *)
(* of each message.  split_script, PolloClient, ffmpeg, Pillow, Gemini and *)
(* S3 are external: each answers, or raises.                               *)
(***************************************************************************)
FinalVideo == "final_16x9.mp4"

NoBest == [best_idx |-> 0, best_score |-> 0, best_path |-> NoPath]

NewJob ==
    [status |-> <<"queued">>, progress |-> <<0, 1>>, errors |-> <<>>,
     video_path |-> None]

NewTask(ref) ==
    [pc |-> "p277", product_image_url |-> ref, n |-> 0, total |-> 0, i |-> 0,
     next_image_url |-> <<>>, master |-> EmptyDir, master_next_idx |-> 0,
     audio_parts |-> <<>>, errors |-> <<>>, frames |-> EmptyDir,
     trim |-> EmptyDir, cand |-> EmptyDir, best |-> NoBest]

\* _http_image_or_none (lines 239-241)
http_image_or_none(url) == IF url = "http" THEN <<"product">> ELSE <<>>

\* lines 456-495: JOBS[job_id] = {...}; background_tasks.add_task(process_job)
Generate ==
    /\ env.jobs > 0
    /\ env' = [env EXCEPT !.jobs = @ - 1]
    /\ \E ref \in env.refs :
          /\ JOBS' = Append(JOBS, NewJob)
          /\ tasks' = Append(tasks, NewTask(ref))
    /\ UNCHANGED <<sessionVars, ringVars, hubVars, clock, threadVars, histVars>>

\* lines 406-410: the except clause of the loop over the chunks
Failed(j) ==
    /\ JOBS' = [JOBS EXCEPT ![j].errors = Append(tasks[j].errors, "FATAL"),
                            ![j].status = <<"failed">>]
    /\ tasks' = [tasks EXCEPT ![j].pc = "end", ![j].errors = Append(@, "FATAL")]

\* lines 277-287: chunks = split_script(...); status = "chunked"
ProcSplit(j) ==
    /\ tasks[j].pc = "p277"
    /\ \E n \in env.chunks :
          tasks' = [tasks EXCEPT ![j].pc = "p289", ![j].n = n]
    /\ JOBS' = [JOBS EXCEPT ![j].status = <<"chunked">>]
    /\ UNCHANGED <<sessionVars, ringVars, hubVars, clock, threadVars, histVars,
                   env>>

\* lines 289-304: status = "generating"; total = max(1, len(chunks))
ProcSetup(j) ==
    /\ tasks[j].pc = "p289"
    /\ tasks' = [tasks EXCEPT
                   ![j].pc = "p307",
                   ![j].next_image_url = http_image_or_none(tasks[j].product_image_url),
                   ![j].master_next_idx = 1,
                   ![j].total = IF tasks[j].n > 1 THEN tasks[j].n ELSE 1]
    /\ JOBS' = [JOBS EXCEPT ![j].status = <<"generating">>]
    /\ UNCHANGED <<sessionVars, ringVars, hubVars, clock, threadVars, histVars,
                   env>>

\* Mutant of ProcNextChunk: enumerate(chunks) counts from 0.
ProcNextChunkFromZero(j) ==
    /\ tasks[j].pc = "p307"
    /\ IF tasks[j].i < tasks[j].n
       THEN /\ tasks' = [tasks EXCEPT ![j].pc = "p310", ![j].i = @ + 1]
            /\ JOBS' = [JOBS EXCEPT ![j].status =
                          <<"generating", tasks[j].i, tasks[j].total>>]
       ELSE /\ tasks' = [tasks EXCEPT ![j].pc = "p413"]
            /\ JOBS' = JOBS
    /\ UNCHANGED <<sessionVars, ringVars, hubVars, clock, threadVars, histVars,
                   env>>

\* lines 307-308: the next chunk, status = f"generating {i}/{total}"; after the
\* last one, on to line 413
ProcNextChunk(j) ==
    /\ tasks[j].pc = "p307"
    /\ IF tasks[j].i < tasks[j].n
       THEN /\ tasks' = [tasks EXCEPT ![j].pc = "p310", ![j].i = @ + 1]
            /\ JOBS' = [JOBS EXCEPT ![j].status =
                          <<"generating", tasks[j].i + 1, tasks[j].total>>]
       ELSE /\ tasks' = [tasks EXCEPT ![j].pc = "p413"]
            /\ JOBS' = JOBS
    /\ UNCHANGED <<sessionVars, ringVars, hubVars, clock, threadVars, histVars,
                   env>>

\* lines 310-355: the prompt, the Pollo task, its result and the download
ProcGenerate(j) ==
    /\ tasks[j].pc = "p310"
    /\ \E ok \in BOOLEAN :
          IF ok THEN /\ tasks' = [tasks EXCEPT ![j].pc = "p358"]
                     /\ JOBS' = JOBS
                ELSE Failed(j)
    /\ UNCHANGED <<sessionVars, ringVars, hubVars, clock, threadVars, histVars,
                   env>>

\* lines 358-359: extract_frames_exact_192(raw_chunk_path, frames_dir)
ProcExtract(j) ==
    /\ tasks[j].pc = "p358"
    /\ \E count \in env.counts :
          /\ tasks' = [tasks EXCEPT
                         ![j].pc = "p362",
                         ![j].frames = extract_frames_exact_192(@, tasks[j].i, count),
                         ![j].errors = Append(@, "INFO")]
          /\ JOBS' = JOBS
    /\ UNCHANGED <<sessionVars, ringVars, hubVars, clock, threadVars, histVars,
                   env>>

\* line 358, ffmpeg failing: _run_ffmpeg raises CalledProcessError (line 157)
ProcExtractRaise(j) ==
    /\ tasks[j].pc = "p358"
    /\ Failed(j)
    /\ UNCHANGED <<sessionVars, ringVars, hubVars, clock, threadVars, histVars,
                   env>>

\* lines 362-363: pick_best_from_candidates(frames_dir, cand_dir, 189, 192)
ProcPick(j) ==
    /\ tasks[j].pc = "p362"
    /\ \E blurs \in [CANDIDATE_START..CANDIDATE_END -> env.blurs] :
          LET r == pick_best_from_candidates(tasks[j].frames, tasks[j].cand, blurs,
                                             CANDIDATE_START, CANDIDATE_END)
          IN  IF r.raised THEN Failed(j)
              ELSE /\ tasks' = [tasks EXCEPT
                                  ![j].pc = "p366",
                                  ![j].cand = r.cand,
                                  ![j].best = [best_idx |-> r.best_idx,
                                               best_score |-> r.best_score,
                                               best_path |-> r.best_path],
                                  ![j].errors = Append(@, "INFO")]
                   /\ JOBS' = JOBS
    /\ UNCHANGED <<sessionVars, ringVars, hubVars, clock, threadVars, histVars,
                   env>>

\* Mutant of TrimFrames: the refill starts one frame late (best_idx - D + 1).
TrimFramesStartLate(frames, trim, best_idx) ==
    LET D == TARGET_FRAMES - best_idx
        head == copy_frames(frames, trim, 1, best_idx, 1)
        start_copy == IF best_idx - D + 1 > 1 THEN best_idx - D + 1 ELSE 1
    IN  IF head.raised \/ D <= 0 THEN head
        ELSE copy_frames(frames, head.dir, start_copy, best_idx - 1, head.w)

\* lines 366-374: frames 1..best_idx, then the D frames before best_idx
TrimFrames(frames, trim, best_idx) ==
    LET D == TARGET_FRAMES - best_idx
        head == copy_frames(frames, trim, 1, best_idx, 1)
        start_copy == IF best_idx - D > 1 THEN best_idx - D ELSE 1
    IN  IF head.raised \/ D <= 0 THEN head
        ELSE copy_frames(frames, head.dir, start_copy, best_idx - 1, head.w)

ProcTrim(j) ==
    /\ tasks[j].pc = "p366"
    /\ LET r == TrimFrames(tasks[j].frames, tasks[j].trim, tasks[j].best.best_idx)
       IN  IF r.raised THEN Failed(j)
           ELSE /\ tasks' = [tasks EXCEPT
                               ![j].pc = "p377",
                               ![j].trim = r.dir,
                               ![j].errors =
                                  IF TARGET_FRAMES - tasks[j].best.best_idx > 0
                                  THEN Append(@, "INFO") ELSE @]
                /\ JOBS' = JOBS
    /\ UNCHANGED <<sessionVars, ringVars, hubVars, clock, threadVars, histVars,
                   env>>

\* lines 377-393: the continuity frame.  open("") raises FileNotFoundError, an
\* OSError, which line 392 catches like the S3 and ffmpeg errors; any other
\* exception ends the job.
ProcContinuity(j) ==
    /\ tasks[j].pc = "p377"
    /\ \E outcome \in IF tasks[j].best.best_path = NoPath
                      THEN {"caught"}
                      ELSE {"4k", "gemini", "caught", "other"} :
          IF outcome = "other" THEN Failed(j)
          ELSE /\ tasks' = [tasks EXCEPT
                              ![j].pc = "p397",
                              ![j].next_image_url =
                                 IF outcome = "caught" THEN @
                                 ELSE <<"cont", tasks[j].i, outcome>>,
                              ![j].errors =
                                 Append(@, IF outcome = "caught" THEN "step failed"
                                                                 ELSE "INFO")]
               /\ JOBS' = JOBS
    /\ UNCHANGED <<sessionVars, ringVars, hubVars, clock, threadVars, histVars,
                   env>>

\* lines 396-399: extract_audio(raw_chunk_path, audio_i)
ProcAudio(j) ==
    /\ tasks[j].pc = "p397"
    /\ \E ok \in BOOLEAN :
          IF ok THEN /\ tasks' = [tasks EXCEPT
                                    ![j].pc = "p402",
                                    ![j].audio_parts = Append(@, tasks[j].i),
                                    ![j].errors = Append(@, "INFO")]
                     /\ JOBS' = JOBS
                ELSE Failed(j)
    /\ UNCHANGED <<sessionVars, ringVars, hubVars, clock, threadVars, histVars,
                   env>>

\* lines 402-404: the trimmed frames go to the end of the master sequence.  The
\* directories of the scene are not read again.
ProcAppend(j) ==
    /\ tasks[j].pc = "p402"
    /\ LET r == copy_frames(tasks[j].trim, tasks[j].master, 1, TARGET_FRAMES,
                            tasks[j].master_next_idx)
       IN  IF r.raised THEN Failed(j)
           ELSE /\ tasks' = [tasks EXCEPT
                               ![j].pc = "p307",
                               ![j].master = r.dir,
                               ![j].master_next_idx = r.w,
                               ![j].frames = EmptyDir,
                               ![j].trim = EmptyDir,
                               ![j].cand = EmptyDir,
                               ![j].best = NoBest]
                /\ JOBS' = [JOBS EXCEPT ![j].progress = <<tasks[j].i, tasks[j].total>>]
    /\ UNCHANGED <<sessionVars, ringVars, hubVars, clock, threadVars, histVars,
                   env>>

\* line 413: status = "concatenating"
ProcConcatenating(j) ==
    /\ tasks[j].pc = "p413"
    /\ tasks' = [tasks EXCEPT ![j].pc = "p416"]
    /\ JOBS' = [JOBS EXCEPT ![j].status = <<"concatenating">>]
    /\ UNCHANGED <<sessionVars, ringVars, hubVars, clock, threadVars, histVars,
                   env>>

\* lines 416-425: the audio is concatenated and the video muxed, or encoded
\* without audio; then status = "done"
ProcMux(j) ==
    /\ tasks[j].pc = "p416"
    /\ tasks' = [tasks EXCEPT
                   ![j].pc = "p426",
                   ![j].errors = @ \o (IF tasks[j].audio_parts # <<>>
                                       THEN <<"INFO", "INFO">> ELSE <<"INFO">>)]
    /\ JOBS' = [JOBS EXCEPT ![j].status = <<"done">>]
    /\ UNCHANGED <<sessionVars, ringVars, hubVars, clock, threadVars, histVars,
                   env>>

\* lines 416-422 raising, then lines 428-431
ProcMuxRaise(j) ==
    /\ tasks[j].pc = "p416"
    /\ tasks' = [tasks EXCEPT ![j].pc = "end", ![j].errors = Append(@, "error")]
    /\ JOBS' = [JOBS EXCEPT ![j].errors = Append(tasks[j].errors, "error"),
                            ![j].status = <<"failed">>]
    /\ UNCHANGED <<sessionVars, ringVars, hubVars, clock, threadVars, histVars,
                   env>>

\* lines 426-427: job["video_path"] = final_16x9; job["errors"] = errors or None
ProcVideoPath(j) ==
    /\ tasks[j].pc = "p426"
    /\ tasks' = [tasks EXCEPT ![j].pc = "end"]
    /\ JOBS' = [JOBS EXCEPT ![j].video_path = FinalVideo,
                            ![j].errors = tasks[j].errors]
    /\ UNCHANGED <<sessionVars, ringVars, hubVars, clock, threadVars, histVars,
                   env>>

(***************************************************************************)
(* The readers of a job: GET /api/status (lines 504-517) builds its answer *)
(* field by field, status at line 511 and video_path at line 514, on the   *)
(* event loop; GET /download (lines 519-524) reads video_path.  probe      *)
(* holds the request and its answer.                                       *)
(***************************************************************************)
\* lines 506-511
StatusApiStatus(j) ==
    /\ probe' = [fn |-> "status_api", job |-> j, pc |-> "r514",
                 status |-> JOBS[j].status, video_path |-> None]
    /\ UNCHANGED <<sessionVars, ringVars, hubVars, clock, threadVars, last_stop,
                   appended, gate_log, jobVars, env>>

\* lines 514-517
StatusApiVideoPath ==
    /\ probe.fn = "status_api"
    /\ probe.pc = "r514"
    /\ probe' = [probe EXCEPT !.pc = "done",
                              !.video_path = JOBS[probe.job].video_path]
    /\ UNCHANGED <<sessionVars, ringVars, hubVars, clock, threadVars, last_stop,
                   appended, gate_log, jobVars, env>>

\* lines 521-524: the file exists once video_path is set
DownloadCall(j) ==
    /\ probe' = [fn |-> "download", job |-> j,
                 ready |-> JOBS[j].video_path # None]
    /\ UNCHANGED <<sessionVars, ringVars, hubVars, clock, threadVars, last_stop,
                   appended, gate_log, jobVars, env>>

ProcNext ==
    \/ Generate
    \/ \E j \in DOMAIN tasks : ProcSplit(j)
    \/ \E j \in DOMAIN tasks : ProcSetup(j)
    \/ \E j \in DOMAIN tasks : ProcNextChunk(j)
    \/ \E j \in DOMAIN tasks : ProcGenerate(j)
    \/ \E j \in DOMAIN tasks : ProcExtract(j)
    \/ \E j \in DOMAIN tasks : ProcExtractRaise(j)
    \/ \E j \in DOMAIN tasks : ProcPick(j)
    \/ \E j \in DOMAIN tasks : ProcTrim(j)
    \/ \E j \in DOMAIN tasks : ProcContinuity(j)
    \/ \E j \in DOMAIN tasks : ProcAudio(j)
    \/ \E j \in DOMAIN tasks : ProcAppend(j)
    \/ \E j \in DOMAIN tasks : ProcConcatenating(j)
    \/ \E j \in DOMAIN tasks : ProcMux(j)
    \/ \E j \in DOMAIN tasks : ProcMuxRaise(j)
    \/ \E j \in DOMAIN tasks : ProcVideoPath(j)

ReadNext ==
    \/ \E j \in DOMAIN JOBS : StatusApiStatus(j)
    \/ StatusApiVideoPath
    \/ \E j \in DOMAIN JOBS : DownloadCall(j)

NextRead == ProcNext \/ ReadNext

(***************************************************************************)
(* SpecJob: one video job of up to MaxChunks scenes whose videos have too  *)
(* few, exactly enough or too many frames.                                 *)
(***************************************************************************)
MaxChunks == 2
MaxBlur == 1

\* what calculate_blur_score may answer, up to the score top
BlurScores(top) ==
    {[none |-> TRUE, v |-> 0]} \cup {[none |-> FALSE, v |-> v] : v \in 0..top}

InitJob ==
    /\ InitSession(1, 1)
    /\ InitHub({})
    /\ InitJobs
    /\ env = [jobs |-> 1, refs |-> {"", "http"}, chunks |-> 0..MaxChunks,
              counts |-> {0, TARGET_FRAMES - 1, TARGET_FRAMES, TARGET_FRAMES + 1},
              blurs |-> BlurScores(MaxBlur)]

SpecJob == InitJob /\ [][ProcNext]_vars

(***************************************************************************)
(* SpecRead: one video job of up to ReadChunks scenes, and the requests    *)
(* that read it while process_job runs.                                    *)
(***************************************************************************)
ReadChunks == 1

InitRead ==
    /\ InitSession(1, 1)
    /\ InitHub({})
    /\ InitJobs
    /\ env = [jobs |-> 1, refs |-> {"http"}, chunks |-> 1..ReadChunks,
              counts |-> {TARGET_FRAMES}, blurs |-> BlurScores(1)]

SpecRead == InitRead /\ [][NextRead]_vars

(***************************************************************************)
(* SpecExtract: extract_frames_exact_192 called again and again on the     *)
(* same out_dir with videos of up to MaxShort frames and of 190 to         *)
(* 192 + MaxOver frames; out_dir holds what the call before left in it.    *)
(***************************************************************************)
MaxShort == 60
MaxOver == 3

ExtractCounts == (0..MaxShort) \cup ((TARGET_FRAMES - 2)..(TARGET_FRAMES + MaxOver))

\* the out_dir of the next call
OutDir == IF probe.fn = "extract_frames_exact_192" THEN probe.res ELSE EmptyDir

\* extract_frames_exact_192(in_video, out_dir), lines 159-182, ffmpeg succeeding
ExtractCall ==
    /\ \E scene \in env.scenes, count \in env.counts :
          probe' = [fn |-> "extract_frames_exact_192", scene |-> scene,
                    count |-> count, stale |-> DOMAIN OutDir # {},
                    raised |-> FALSE,
                    res |-> extract_frames_exact_192(OutDir, scene, count)]
    /\ UNCHANGED <<sessionVars, ringVars, hubVars, clock, threadVars, last_stop,
                   appended, gate_log, jobVars, env>>

\* lines 159-171, ffmpeg failing after it wrote written frames: _run_ffmpeg
\* raises CalledProcessError (line 157) and lines 172-182 do not run
ExtractCallRaise ==
    /\ \E scene \in env.scenes, written \in env.partial :
          probe' = [fn |-> "extract_frames_exact_192", scene |-> scene,
                    count |-> written, stale |-> DOMAIN OutDir # {},
                    raised |-> TRUE,
                    res |-> FfmpegFrames(RemoveFrames(OutDir), scene, written)]
    /\ UNCHANGED <<sessionVars, ringVars, hubVars, clock, threadVars, last_stop,
                   appended, gate_log, jobVars, env>>

NextExtract ==
    \/ ExtractCall
    \/ ExtractCallRaise

InitExtract ==
    /\ InitSession(1, 1)
    /\ InitHub({})
    /\ InitJobs
    /\ env = [scenes |-> {1}, counts |-> ExtractCounts, partial |-> 0..1]

SpecExtract == InitExtract /\ [][NextExtract]_vars

(***************************************************************************)
(* SpecPick: pick_best_from_candidates called on the frames of a scene     *)
(* with every combination of blur scores up to MaxPickBlur of the four     *)
(* candidates, unreadable ones included.                                   *)
(***************************************************************************)
MaxPickBlur == 2

\* pick_best_from_candidates(frames_dir, cand_dir), lines 225-236, with the
\* default start_idx = 189 and end_idx = 192; res.raised: copyfile raised
\* FileNotFoundError (line 232) and nothing is returned
PickCall ==
    /\ \E count \in env.counts :
       \E blurs \in [CANDIDATE_START..CANDIDATE_END -> env.blurs] :
          probe' = [fn |-> "pick_best_from_candidates", count |-> count,
                    blurs |-> blurs,
                    res |-> pick_best_from_candidates(
                               FfmpegFrames(EmptyDir, 1, count), EmptyDir, blurs,
                               CANDIDATE_START, CANDIDATE_END)]
    /\ UNCHANGED <<sessionVars, ringVars, hubVars, clock, threadVars, last_stop,
                   appended, gate_log, jobVars, env>>

InitPick ==
    /\ InitSession(1, 1)
    /\ InitHub({})
    /\ InitJobs
    /\ env = [counts |-> {CANDIDATE_START, TARGET_FRAMES},
              blurs |-> BlurScores(MaxPickBlur)]

SpecPick == InitPick /\ [][PickCall]_vars

(***************************************************************************)
(* The GPT-5/Gemini continuity step of process_job in                      *)
(* src/main_gpt5_64.py (lines 706-808).  The other steps of a chunk are    *)
(* those of src/main2.py above; here they give the chunk's best_png, or    *)
(* raise.  A path is a tuple: <<>> for "", <<"best", i>> for the best      *)
(* candidate of scene i, <<"upscaled">> \o p for Gemini's upscale of p.    *)
(* The URL of an uploaded file is <<"s3">> \o its path, None is <<>>.      *)
(***************************************************************************)
MAX_GEMINI_RETRIES == 2

BestPng(i) == <<"best", i>>

UpscaledOf(path) == <<"upscaled">> \o path

\* upload_public_png (lines 60-63), the upload succeeding
upload_public_png(path) == <<"s3">> \o path

\* x or y of Python on strings and None
OrElse(x, y) == IF x # <<>> THEN x ELSE y

\* lines 583-634: the locals of process_job before the loop over the chunks
NewGptTask(ref, total) ==
    [pc |-> "g636", i |-> 0, total |-> total, failed |-> FALSE,
     next_image_url |-> http_image_or_none(ref),
     best_png |-> <<>>,
     previous_best_png_path |-> <<>>, previous_best_png_s3_url |-> <<>>,
     anchor_b_path |-> <<>>, b_s3 |-> <<>>,
     attempt |-> 0, upscale_ok |-> FALSE, last_upscaled_s3_url |-> <<>>,
     tries |-> <<>>, step |-> "none"]

\* POST /generate: background_tasks.add_task(process_job, job_id)
GptStart ==
    /\ env.jobs > 0
    /\ env' = [env EXCEPT !.jobs = @ - 1]
    /\ \E ref \in env.refs, total \in env.chunks :
          tasks' = Append(tasks, NewGptTask(ref, total))
    /\ UNCHANGED <<sessionVars, ringVars, hubVars, clock, threadVars, histVars,
                   JOBS>>

\* lines 636-704 of the next chunk: generation with next_image_url, frames,
\* best_idx, best_score, best_png = pick_best_from_candidates(...) (line 692),
\* whose best_png is "" when no candidate scores above 0, and the trim
GptChunk(j) ==
    /\ tasks[j].pc = "g636"
    /\ tasks[j].i < tasks[j].total
    /\ \E best \in {BestPng(tasks[j].i + 1)} \cup env.blank :
          tasks' = [tasks EXCEPT ![j].pc = "g707",
                                 ![j].i = @ + 1,
                                 ![j].best_png = best,
                                 ![j].anchor_b_path = <<>>,
                                 ![j].b_s3 = <<>>,
                                 ![j].attempt = 0,
                                 ![j].upscale_ok = FALSE,
                                 ![j].last_upscaled_s3_url = <<>>,
                                 ![j].tries = <<>>,
                                 ![j].step = "none"]
    /\ UNCHANGED <<sessionVars, ringVars, hubVars, clock, threadVars, histVars,
                   JOBS, env>>

\* lines 636-704 raising: the except clause of the loop (lines 822-826)
GptChunkRaise(j) ==
    /\ tasks[j].pc = "g636"
    /\ tasks[j].i < tasks[j].total
    /\ tasks' = [tasks EXCEPT ![j].pc = "end", ![j].failed = TRUE]
    /\ UNCHANGED <<sessionVars, ringVars, hubVars, clock, threadVars, histVars,
                   JOBS, env>>

\* lines 707-752: anchor_b_path = previous_best_png_path or best_png; upload of
\* B, which fails for a path that names no file; the prompt from GPT-5;
\* upscale_ok = False; last_upscaled_s3_url = None
GptUploadB(j) ==
    /\ tasks[j].pc = "g707"
    /\ LET anchor == OrElse(tasks[j].previous_best_png_path, tasks[j].best_png)
       IN  \E ok \in IF anchor = <<>> THEN {FALSE} ELSE BOOLEAN :
              tasks' = [tasks EXCEPT
                          ![j].pc = "g754",
                          ![j].anchor_b_path = anchor,
                          ![j].b_s3 = IF ok THEN upload_public_png(anchor) ELSE <<>>,
                          ![j].previous_best_png_s3_url =
                             IF ok THEN upload_public_png(anchor) ELSE @,
                          ![j].attempt = 1,
                          ![j].upscale_ok = FALSE,
                          ![j].last_upscaled_s3_url = <<>>]
    /\ UNCHANGED <<sessionVars, ringVars, hubVars, clock, threadVars, histVars,
                   JOBS, env>>

\* lines 754, 771-773: break on similarity is True, or range() is exhausted
LoopLeft(similarity, attempt) ==
    similarity = "True" \/ attempt = MAX_GEMINI_RETRIES

\* lines 754-783, one attempt of the loop: gemini_upscale_image (lines 69-128)
\* gives an image or not; with one, the upload of the upscaled image and
\* call_gpt5_for_similarity_check (lines 417-478), which answers True, False
\* or None
GptAttempt(j) ==
    /\ tasks[j].pc = "g754"
    /\ tasks[j].attempt <= MAX_GEMINI_RETRIES
    /\ \E image \in IF tasks[j].anchor_b_path = <<>> THEN {FALSE} ELSE BOOLEAN :
       \E uploaded \in IF image THEN BOOLEAN ELSE {FALSE} :
       \E similarity \in IF image THEN {"True", "False", "None"} ELSE {"no check"} :
          tasks' = [tasks EXCEPT
                      ![j].pc = IF LoopLeft(similarity, tasks[j].attempt)
                                THEN "g786" ELSE "g754",
                      ![j].attempt = @ + 1,
                      ![j].last_upscaled_s3_url =
                         IF ~image THEN @
                         ELSE IF uploaded
                         THEN upload_public_png(UpscaledOf(tasks[j].anchor_b_path))
                         ELSE <<>>,
                      ![j].upscale_ok = (@ \/ similarity = "True"),
                      ![j].tries = Append(@, [image |-> image,
                                              uploaded |-> uploaded,
                                              similarity |-> similarity])]
    /\ UNCHANGED <<sessionVars, ringVars, hubVars, clock, threadVars, histVars,
                   JOBS, env>>

\* line 756 raising: gemini_upscale_image opens frame_path outside its try
\* (lines 87-88), an OSError for a path that names no file, caught at line 807
GptAttemptRaise(j) ==
    /\ tasks[j].pc = "g754"
    /\ tasks[j].attempt <= MAX_GEMINI_RETRIES
    /\ tasks[j].anchor_b_path = <<>>
    /\ tasks' = [tasks EXCEPT ![j].pc = "g810", ![j].step = "failed"]
    /\ UNCHANGED <<sessionVars, ringVars, hubVars, clock, threadVars, histVars,
                   JOBS, env>>

\* lines 786-793: used_s3_url
UsedS3Url(t) ==
    IF t.upscale_ok /\ t.last_upscaled_s3_url # <<>> THEN t.last_upscaled_s3_url
    ELSE OrElse(t.b_s3, t.previous_best_png_s3_url)

\* lines 786-797: next_image_url = used_s3_url or _http_image_or_none(used_path)
\* or None; used_path is a local file, which _http_image_or_none turns to None
GptDecide(j) ==
    /\ tasks[j].pc = "g786"
    /\ tasks' = [tasks EXCEPT ![j].pc = "g800",
                              ![j].next_image_url = OrElse(UsedS3Url(tasks[j]), <<>>),
                              ![j].step = "decided"]
    /\ UNCHANGED <<sessionVars, ringVars, hubVars, clock, threadVars, histVars,
                   JOBS, env>>

\* lines 800-805: previous_best_png_path = best_png, and its upload when no
\* URL of a best frame is known
GptSavePrevious(j) ==
    /\ tasks[j].pc = "g800"
    /\ \E ok \in IF tasks[j].previous_best_png_s3_url # <<>>
                    \/ tasks[j].best_png = <<>>
                 THEN {FALSE} ELSE BOOLEAN :
          tasks' = [tasks EXCEPT
                      ![j].pc = "g810",
                      ![j].previous_best_png_path = tasks[j].best_png,
                      ![j].previous_best_png_s3_url =
                         IF @ # <<>> THEN @
                         ELSE IF ok THEN upload_public_png(tasks[j].best_png)
                         ELSE <<>>]
    /\ UNCHANGED <<sessionVars, ringVars, hubVars, clock, threadVars, histVars,
                   JOBS, env>>

\* lines 810-820: the audio and the master sequence of the chunk; an
\* exception ends the job (lines 822-826)
GptChunkEnd(j) ==
    /\ tasks[j].pc = "g810"
    /\ \E ok \in BOOLEAN :
          tasks' = [tasks EXCEPT ![j].pc = IF ok THEN "g636" ELSE "end",
                                 ![j].failed = ~ok]
    /\ UNCHANGED <<sessionVars, ringVars, hubVars, clock, threadVars, histVars,
                   JOBS, env>>

\* lines 828-846: the final mux after the last chunk
GptFinish(j) ==
    /\ tasks[j].pc = "g636"
    /\ tasks[j].i = tasks[j].total
    /\ tasks' = [tasks EXCEPT ![j].pc = "end"]
    /\ UNCHANGED <<sessionVars, ringVars, hubVars, clock, threadVars, histVars,
                   JOBS, env>>

NextGpt ==
    \/ GptStart
    \/ \E j \in DOMAIN tasks : GptChunk(j)
    \/ \E j \in DOMAIN tasks : GptChunkRaise(j)
    \/ \E j \in DOMAIN tasks : GptUploadB(j)
    \/ \E j \in DOMAIN tasks : GptAttempt(j)
    \/ \E j \in DOMAIN tasks : GptAttemptRaise(j)
    \/ \E j \in DOMAIN tasks : GptDecide(j)
    \/ \E j \in DOMAIN tasks : GptSavePrevious(j)
    \/ \E j \in DOMAIN tasks : GptChunkEnd(j)
    \/ \E j \in DOMAIN tasks : GptFinish(j)

(***************************************************************************)
(* SpecGpt: one job of up to MaxGptChunks scenes through the continuity    *)
(* step, every upload, upscale and similarity check answering either way.  *)
(***************************************************************************)
MaxGptChunks == 2

InitGpt ==
    /\ InitSession(1, 1)
    /\ InitHub({})
    /\ InitJobs
    /\ env = [jobs |-> 1, refs |-> {"", "http"}, chunks |-> 1..MaxGptChunks,
              blank |-> {<<>>}]

SpecGpt == InitGpt /\ [][NextGpt]_vars

(***************************************************************************)
(*                              The claims                                 *)
(***************************************************************************)
LiveWorkers == {w \in DOMAIN workers : Alive(workers[w])}

MidExtend == conn.pc \in {"w71v", "w71h"}

NumForwarded(log) == Cardinality({i \in 1..Len(log) : log[i].fwd})

\* C1: at most one worker_loop thread is active at any time, whatever the
\* interleaving of the start() and stop() requests.
C1_OneWorkerLoop == Cardinality(LiveWorkers) <= 1

\* C2: a start() that finds the run flag set returns already_running and changes
\* nothing: ring.buf, ring.session, the worker threads, the run flag, the final
\* text, the listener registry and every listener queue stay as they are.
C2_StartWhileRunningIsNoOp ==
    [][(env'.starts # env.starts /\ run_flag) =>
         /\ \A t \in DOMAIN starts :
               \/ starts'[t] = starts[t]
               \/ starts'[t] = [pc |-> "idle", res |-> "already_running"]
         /\ \A t \in DOMAIN starts : starts'[t].pc = starts[t].pc
         /\ ring_buf' = ring_buf
         /\ ring_session' = ring_session
         /\ workers' = workers
         /\ run_flag'
         /\ final_text' = final_text
         /\ listeners' = listeners
         /\ queues' = queues]_vars

\* C2 witness: a start() has answered already_running while the buffers held
\* audio, a worker was running and the listener had events queued.
C2_Witness ==
    /\ \E t \in DOMAIN starts : starts[t].res = "already_running"
    /\ run_flag
    /\ ring_buf # <<>>
    /\ ring_session # <<>>
    /\ LiveWorkers # {}
    /\ queues[1] # <<>>

\* C3: once a stop() that found the session Running has returned, a later stop()
\* (no start() since) returns already_stopped with the same final text.
C3_StopIdempotent ==
    [][\A t \in DOMAIN stops :
         (stops[t].pc = "t234" /\ stops'[t].pc = "idle" /\ last_stop # None) =>
            stops'[t].res = [status |-> "already_stopped", final |-> last_stop]]_vars

\* C4: ring.session gains a chunk only while the run flag is set.
C4_SessionGrowsOnlyWhileRunning ==
    [][Len(ring_session') > Len(ring_session) => run_flag]_vars

\* C5: ring.buf never holds more than its capacity, and it holds, in order,
\* exactly the most recent min(capacity, n) of the n samples appended since it
\* was last cleared.
C5_RingHoldsMostRecent ==
    /\ Len(ring_buf) <= RingCapacity
    /\ ring_buf = LastN(appended, RingCapacity)

\* C5 witness: in a Running session the ring has been filled beyond its capacity
\* after start() cleared it, so old samples have been evicted.
C5_Witness ==
    /\ run_flag
    /\ Len(appended) > RingCapacity
    /\ Len(ring_buf) = RingCapacity

\* C6: a frame is forwarded (put into ring.buf, then into ring.session) iff it is
\* voiced or the hangover counter is > 0; a frame that is not forwarded reaches
\* neither buffer; the counter is set to H after a voiced frame, counts down by
\* one after a forwarded unvoiced frame and changes at no other time.
C6_GateForwardsIffVoicedOrHangover ==
    [][/\ (conn.pc = "w285" /\ Len(gate_log') = Len(gate_log) + 1) =>
            LET voice == gate_log'[Len(gate_log')].voice
                chunk == SubSeq(conn.acc, 1, frame_16k)
            IN  /\ conn'.hang = conn.hang
                /\ (voice \/ conn.hang > 0) =>
                      /\ ring_buf' = LastN(ring_buf \o chunk, RingCapacity)
                      /\ ring_buf' # ring_buf
                      /\ conn'.chunk = chunk
                      /\ conn'.pc = IF voice THEN "w71v" ELSE "w71h"
                /\ ~(voice \/ conn.hang > 0) =>
                      /\ ring_buf' = ring_buf
                      /\ ring_session' = ring_session
                      /\ conn'.pc = "w285"
       /\ MidExtend =>
            \/ conn' = conn
            \/ /\ ring_session' = Append(ring_session, conn.chunk)
               /\ conn'.hang = IF conn.pc = "w71v" THEN HANGOVER_FRAMES
                                                   ELSE conn.hang - 1
               /\ conn.pc = "w71h" => conn.hang > 0
       /\ conn'.hang # conn.hang => MidExtend]_vars

\* C6 witness: the connection has forwarded a voiced frame and an unvoiced
\* frame, and has dropped an unvoiced frame.
C6_Witness ==
    /\ \E i \in 1..Len(gate_log) : gate_log[i].voice /\ gate_log[i].fwd
    /\ \E i \in 1..Len(gate_log) : ~gate_log[i].voice /\ gate_log[i].fwd
    /\ \E i \in 1..Len(gate_log) : ~gate_log[i].voice /\ ~gate_log[i].fwd
    /\ conn.pc = "w263"

\* C7: after a voiced frame, of the unvoiced frames that follow it (up to the
\* next voiced frame) exactly the first H = 15 are forwarded: H + 1 forwarded
\* frames with the voiced one; the later ones are dropped, and the buffers hold
\* the forwarded frames only.
C7_HangoverForwardsExactlyH ==
    /\ HANGOVER_FRAMES = 15
    /\ \A i \in 1..Len(gate_log) : \A j \in (i + 1)..Len(gate_log) :
          (gate_log[i].voice /\ \A k \in (i + 1)..j : ~gate_log[k].voice) =>
             (gate_log[j].fwd <=> j - i <= HANGOVER_FRAMES)
    /\ Len(appended) = frame_16k * NumForwarded(gate_log)
    /\ Len(ring_session) = NumForwarded(gate_log) - (IF MidExtend THEN 1 ELSE 0)

\* C7 witness: one voiced frame, then H + 1 unvoiced frames, the last of them
\* dropped: H + 1 chunks in ring.session.
C7_Witness ==
    /\ Len(gate_log) = HANGOVER_FRAMES + 2
    /\ gate_log[1].voice
    /\ \A k \in 2..Len(gate_log) : ~gate_log[k].voice
    /\ ~gate_log[Len(gate_log)].fwd
    /\ Len(ring_session) = HANGOVER_FRAMES + 1

\* C8: a scheduler read of the AudioStore (latest_window, session_audio) never
\* happens while an append is half done (the chunk in ring.buf, not yet in
\* ring.session) or a reset is half done, and the buffer read does not change
\* between the test and the copy of one read.
C8_ReadsAndAppendsAreAtomic ==
    [][\A w \in DOMAIN workers :
         /\ (workers'[w] # workers[w]
               /\ workers[w].pc \in {"w180", "w180c", "w188", "w188c"}) =>
              (~MidExtend /\ \A t \in DOMAIN starts : starts[t].pc # "s224")
         /\ workers[w].pc = "w180c" => ring_buf' = ring_buf
         /\ workers[w].pc = "w188c" => ring_session' = ring_session]_vars

\* C9: a Running session always has a live scheduler, also after the engine has
\* raised in a decode (start() between lines 225 and 226 has set the flag and is
\* about to launch the thread).
C9_RunningHasLiveScheduler ==
    (run_flag /\ \A t \in DOMAIN starts : starts[t].pc # "s226") => LiveWorkers # {}

\* C10: once stop() has returned (and until the next start()), no step of a
\* worker_loop thread publishes an event or changes final_text.
C10_SchedulerQuietAfterStop ==
    [][(last_stop # None /\ workers' # workers) =>
          (final_text' = final_text /\ queues' = queues)]_vars

\* C11: a stop() that finds the session Running clears the run flag, publishes
\* its final event (if any) and then exactly one status=stopped event to every
\* listener, and returns as final the text it published in its final event.
C11_StopReturnsWhatItPublished ==
    [][\A t \in DOMAIN stops :
         /\ (stops[t].pc = "t235" /\ stops'[t].pc # "t235") => ~run_flag'
         /\ (stops[t].pc = "t239" /\ stops'[t].pc # "t239") =>
               queues' = PutAll(queues, listeners, Payload(None, stops'[t].pub, None))
         /\ (stops[t].pc = "t240" /\ stops'[t].pc # "t240") =>
               queues' = PutAll(queues, listeners, Payload(None, None, "stopped"))
         /\ (stops[t].pc = "t241" /\ stops'[t].pc = "idle" /\ stops[t].pub # None) =>
               stops'[t].res = [status |-> "stopped", final |-> stops[t].pub]]_vars

\* C12: a start() that finds the session not Running has emptied ring.buf and
\* ring.session when it sets the run flag (the session becomes Running with no
\* audio from before it in either buffer), then launches one worker_loop thread
\* and publishes exactly one event {status: started, partial: "", final: ""}.
C12_StartResetsBeforeRunning ==
    [][\A t \in DOMAIN starts :
         /\ (starts[t].pc = "s225" /\ starts'[t].pc = "s226") =>
               (run_flag' /\ ring_buf' = <<>> /\ ring_session' = <<>>)
         /\ (starts[t].pc = "s226" /\ starts'[t].pc = "s227") =>
               workers' = Append(workers, NewWorker)
         /\ (starts[t].pc = "s227" /\ starts'[t].pc = "idle") =>
               /\ queues' = PutAll(queues, listeners, Payload("", "", "started"))
               /\ starts'[t].res = "started"]_vars

QueueGrows == \E l \in ListenerIds : Len(queues'[l]) > Len(queues[l])

\* C13: publish() puts the event exactly once into the queue of every listener
\* registered at the time of the call and into no other queue, whatever the
\* consumers have left unread (a publisher that has reached its publish call can
\* always complete it), and takes no listener out of the registry (no push to an
\* unbounded queue fails).
C13_PublishReachesEveryListenerOnce ==
    [][/\ QueueGrows =>
            /\ \E msg \in {queues'[l][Len(queues'[l])] :
                             l \in {x \in ListenerIds : queues'[x] # <<>>}} :
                  \A l \in ListenerIds :
                     queues'[l] = IF l \in listeners THEN Append(queues[l], msg)
                                                     ELSE queues[l]
            /\ listeners' = listeners
       /\ \A t \in DOMAIN starts :
             starts[t].pc = "s227" => ENABLED StartPublish(t)
       /\ (conn.pc = "none" /\ env.conns > 0) => ENABLED WsConnect]_vars

\* C13 witness: two listeners are registered and neither has read the two events
\* published since.
C13_Witness ==
    /\ listeners = {1, 2}
    /\ \A l \in listeners : Len(queues[l]) = 2 /\ streams[l].out = <<":ok">>
    /\ queues[1] = queues[2]

\* C14: the registry grows only in register_listener(); a publish() made when the
\* stream of a registered listener has been disconnected completes like any
\* other: the publisher goes on without an error, every registered queue gets the
\* event and the registry is left as it is.
C14_PublishAfterDisconnect ==
    [][/\ ~(listeners' \subseteq listeners) =>
            \E l \in ListenerIds :
               /\ streams[l].pc = "none"
               /\ streams'[l].pc = "created"
               /\ listeners' = listeners \cup {l}
       /\ \A t \in DOMAIN starts :
             (starts[t].pc = "s227" /\ starts'[t] # starts[t]) =>
                /\ starts'[t] = [pc |-> "idle", res |-> "started"]
                /\ listeners' = listeners
                /\ \A l \in listeners : Len(queues'[l]) = Len(queues[l]) + 1
       /\ (conn.pc = "none" /\ conn' # conn) =>
             /\ conn'.pc = "w263"
             /\ listeners' = listeners
             /\ \A l \in listeners : Len(queues'[l]) = Len(queues[l]) + 1]_vars

\* C14 witness: a listener whose client has gone away is still registered, and an
\* event has been published into its queue since the client left.
C14_Witness ==
    \E l \in listeners :
       /\ ~streams[l].connected
       /\ streams[l].pc = "get"
       /\ Len(queues[l]) > streams[l].backlog

\* C15: every listener registered by /events is eventually removed from the
\* registry once its client has disconnected, also when no event is published
\* after the disconnect.
C15_ListenerEventuallyRemoved ==
    \A l \in ListenerIds :
       (l \in listeners /\ ~streams[l].connected) ~> (l \notin listeners)

ConnEnds == conn.pc \notin {"done", "dead"} /\ conn'.pc \in {"done", "dead"}

Published(msg) ==
    \A l \in ListenerIds :
       queues'[l] = IF l \in listeners THEN Append(queues[l], msg) ELSE queues[l]

\* The worker's step from the line pc leaves it alive.
WorkerStep(w, pc) ==
    workers[w].pc = pc /\ workers'[w] # workers[w] /\ workers'[w].pc # "dead"

\* C17: in the partial decode a non-empty engine result replaces latest_text and
\* one event {partial: result, final: final_text} is published; an empty result
\* leaves latest_text as it was and publishes nothing; no step of the scheduler
\* sets latest_text to the empty string, and the partial decode leaves final_text
\* alone.
C17_PartialKeepsLastNonEmpty ==
    [][\A w \in DOMAIN workers :
         /\ WorkerStep(w, "w182") =>
               /\ \/ /\ workers'[w].latest_text \in env.texts \ {""}
                     /\ Published([ts |-> clock,
                                   partial |-> workers'[w].latest_text,
                                   final |-> final_text])
                  \/ /\ workers'[w].latest_text = workers[w].latest_text
                     /\ queues' = queues
               /\ workers'[w].last_p = workers[w].now
               /\ final_text' = final_text
         /\ workers'[w].latest_text # workers[w].latest_text =>
               (workers[w].pc = "w182" /\ workers'[w].latest_text # "")]_vars

\* C17 witness: a partial decode that returned nothing has left the earlier
\* partial "a" in place: the worker has just finished a partial tick (last_p is
\* the time of this iteration) and no event has been published since that time.
C17_Witness ==
    \E w \in DOMAIN workers :
       /\ workers[w].pc = "w188"
       /\ workers[w].latest_text = "a"
       /\ workers[w].last_p = workers[w].now
       /\ workers[w].last_p > ClockStart
       /\ \A i \in 1..Len(queues[1]) : queues[1][i].ts < workers[w].last_p

\* C18: in the final decode (session snapshot longer than 1 s) the engine result
\* is assigned to final_text whatever it is, publishing nothing; then exactly one
\* event {partial: latest_text, final: final_text} is published, also when the
\* final text is empty, and last_f is set to the time of the iteration.
C18_FinalAssignsAndPublishesAlways ==
    [][\A w \in DOMAIN workers :
         /\ workers'[w].pc = "w190" =>
               (workers[w].pc \in {"w188c", "w190"} /\ Len(workers'[w].sess) > ASR_SR)
         /\ workers[w].pc = "w190" =>
               ENABLED (WorkerFinal(w) /\ final_text' = "")
         /\ WorkerStep(w, "w190") =>
               /\ workers'[w].pc = "w191"
               /\ final_text' \in env.texts
               /\ queues' = queues
         /\ WorkerStep(w, "w191") =>
               /\ Published([ts |-> clock,
                             partial |-> workers[w].latest_text,
                             final |-> final_text])
               /\ final_text' = final_text
               /\ workers'[w].last_f = workers[w].now]_vars

\* C18 witness: the listener was sent an event with final "a" and later the
\* event of a final decode that returned nothing, and the stored final text is
\* empty.
C18_Witness ==
    /\ final_text = ""
    /\ \E i, j \in 1..Len(queues[1]) :
          /\ i < j
          /\ "final" \in DOMAIN queues[1][i] /\ queues[1][i].final = "a"
          /\ DOMAIN queues[1][j] = {"ts", "partial", "final"}
          /\ queues[1][j].final = ""

\* C19: a tick that finds too little audio is skipped: when latest_window
\* returns None (line 75), or session_audio returns None (line 81) or a snapshot
\* of at most 1 s (line 189), the scheduler calls no engine, publishes nothing,
\* leaves latest_text and final_text as they are and goes on with its loop.
C19_TickWithoutAudioIsSkipped ==
    [][\A w \in DOMAIN workers :
         LET skipped ==
               /\ workers'[w].pc \notin {"w182", "w190", "dead", "done"}
               /\ workers'[w].latest_text = workers[w].latest_text
               /\ final_text' = final_text
               /\ queues' = queues
         IN  /\ (workers[w].pc = "w180" /\ workers'[w] # workers[w]
                   /\ Len(ring_buf) < ASR_SR \div 2) =>
                  (skipped /\ workers'[w].last_p = workers[w].last_p)
             /\ (workers[w].pc = "w188" /\ workers'[w] # workers[w]
                   /\ ring_session = <<>>) =>
                  (skipped /\ workers'[w].pc = "w178")
             /\ (workers[w].pc = "w188c" /\ workers'[w] # workers[w]
                   /\ ring_session # <<>>
                   /\ Len(Flatten(ring_session)) <= ASR_SR) =>
                  (skipped /\ workers'[w].pc = "w178")]_vars

\* C19 witness: no audio has arrived, and the worker, alive in a Running session,
\* has been through a second final tick after skipping the first; nothing but
\* the started event was published.
C19_Witness ==
    \E w \in DOMAIN workers :
       /\ run_flag
       /\ Alive(workers[w])
       /\ workers[w].last_f > ClockStart
       /\ conn.pc = "none"
       /\ ring_buf = <<>> /\ ring_session = <<>>
       /\ Len(queues[1]) = 1

\* C20: the binary messages a connection receives before any text message are
\* resampled from the default rate, and once the connection has received audio
\* in a binary message no later message changes its in_sr.
C20_RateFixedMidStream ==
    [][/\ (conn.pc # "none" /\ env.hellos = RateHellos) => conn.in_sr = DEFAULT_IN_SR
       /\ (conn.pc # "none" /\ env.sent > 0) => conn'.in_sr = conn.in_sr]_vars

\* C21: a text message changes no buffer and leaves the connection receiving,
\* and no handshake, whatever its sampleRate, makes the ingestion handler end in
\* an error: the handler leaves its receive loop only when receive() returns
\* None.
C21_NoHandshakeIsFatal ==
    [][/\ env'.hellos < env.hellos =>
            /\ conn'.pc = "w263"
            /\ conn'.acc = conn.acc
            /\ ring_buf' = ring_buf
            /\ ring_session' = ring_session
       /\ (conn.pc \in {"w263", "w285", "w71v", "w71h"} /\ conn' # conn) =>
            conn'.pc \in {"w263", "w285", "w71v", "w71h", "w301", "done"}]_vars

\* An event with the key k is in the queue of listener 1 (who reads nothing).
Queued(k, vals) ==
    \E i \in 1..Len(queues[1]) :
       k \in DOMAIN queues[1][i] /\ queues[1][i][k] \in vals

EngineRaised == env.raises < LiveRaises

\* C22: with the worker thread scheduled fairly, a Running session whose ring
\* holds at least 0.5 s of audio, the engine returning non-empty text, leads to
\* a published event with a non-empty partial (unless the session is stopped
\* first); and a stop() that found the session Running leads to a published
\* event with status stopped.
C22_PartialAndStoppedEventually ==
    /\ (run_flag /\ ~WindowUnavailable(ring_buf))
          ~> (~run_flag \/ EngineRaised \/ Queued("partial", env.texts \ {""}))
    /\ (\E t \in DOMAIN stops : stops[t].pc = "t235")
          ~> Queued("status", {"stopped"})

\* C23: the first output of a listener's stream is the keep-alive ":ok", and the
\* data events it emits after it are, in publish order, the events published
\* since the listener was registered: none from before, none left out, none
\* twice.
C23_OkThenEventsSinceRegistration ==
    \A l \in ListenerIds :
       LET out == streams[l].out
       IN  /\ streams[l].pc \in {"none", "created"} => out = <<>>
           /\ out # <<>> => Head(out) = ":ok"
           /\ streams[l].since + Len(out) - 1 <= Len(published)
           /\ \A i \in 2..Len(out) : out[i] = published[streams[l].since + i - 1]

\* C23 witness: a listener that registered after the first event was published
\* has been sent the keep-alive and then the two events published since.
C23_Witness ==
    \E l \in ListenerIds :
       /\ streams[l].since = 1
       /\ Len(published) = 3
       /\ streams[l].out = <<":ok", published[2], published[3]>>

FinalDue(wk) == clock - wk.last_f >= FINAL_UPDATE_TICKS

\* C25: the partial timer and the final timer are scheduled independently: a
\* step that sets the last-run time of one timer leaves that of the other as it
\* is, a due final tick does not wait for a partial decode that is still running,
\* and no two decodes of the same timer are running at the same time.
C25_TimersIndependent ==
    [][/\ \A w \in DOMAIN workers :
            /\ workers'[w].last_p # workers[w].last_p =>
                  workers'[w].last_f = workers[w].last_f
            /\ workers'[w].last_f # workers[w].last_f =>
                  workers'[w].last_p = workers[w].last_p
            /\ (workers[w].pc = "w182" /\ run_flag) => ~FinalDue(workers[w])
       /\ Cardinality({w \in DOMAIN workers : workers[w].pc = "w182"}) <= 1
       /\ Cardinality({w \in DOMAIN workers : workers[w].pc = "w190"}) <= 1]_vars

\* C26: ring.buf and ring.session are emptied only by the two clear() calls of
\* a start() that found the session not Running, and otherwise change only by
\* the append of a forwarded frame: no step of stop(), of the connection's
\* teardown, of the scheduler, of publish or of the registration and removal of
\* a listener changes either buffer, so the session audio is still there after
\* stop().
C26_BuffersClearedOnlyByStart ==
    [][/\ ring_buf' # ring_buf =>
            \/ /\ \E t \in DOMAIN starts :
                      starts[t].pc = "s223" /\ starts'[t].pc = "s224"
               /\ ring_buf' = <<>>
            \/ /\ conn.pc = "w285" /\ conn'.pc \in {"w71v", "w71h"}
               /\ ring_buf' = LastN(ring_buf \o conn'.chunk, RingCapacity)
       /\ ring_session' # ring_session =>
            \/ /\ \E t \in DOMAIN starts :
                      starts[t].pc = "s224" /\ starts'[t].pc = "s225"
               /\ ring_session' = <<>>
            \/ /\ conn.pc \in {"w71v", "w71h"} /\ conn'.pc = "w285"
               /\ ring_session' = Append(ring_session, conn.chunk)
       /\ \A t \in DOMAIN starts :
             (starts[t].pc = "idle" /\ starts'[t].pc = "s223") => ~run_flag
       /\ (\/ stops' # stops
           \/ workers' # workers
           \/ listeners' # listeners
           \/ queues' # queues
           \/ streams' # streams
           \/ conn.pc \in {"w263", "w301", "w301c", "w303"} /\ conn' # conn) =>
             (ring_buf' = ring_buf /\ ring_session' = ring_session)]_vars

\* C26 witness: the session was stopped after a decode of its audio, the
\* connection has closed and flushed, the scheduler has published a partial, the
\* /events client has been registered and removed, and both buffers still hold
\* the audio.
C26_Witness ==
    /\ ~run_flag
    /\ last_stop = "a"
    /\ conn.pc = "done" /\ conn.voiced_any
    /\ \E w \in DOMAIN workers : workers[w].latest_text = "a"
    /\ streams[1].pc = "closed" /\ 1 \notin listeners
    /\ ring_buf # <<>>
    /\ ring_session # <<>>

\* The samples of the frames the connection has classified so far, in order.
Framed == Flatten([i \in 1..Len(gate_log) |-> gate_log[i].chunk])

\* C27: within one connection the resampled samples are framed in arrival
\* order, the remainder carried over to the next message: every frame has
\* frame_16k (320) samples, the carry buffer holds fewer than that whenever the
\* handler is back at receive, and the frames classified so far followed by the
\* carry buffer are the resampled messages so far, no sample lost, duplicated or
\* out of order.
C27_FramesAndCarryAreTheInput ==
    conn.pc # "none" =>
       /\ \A i \in 1..Len(gate_log) : Len(gate_log[i].chunk) = frame_16k
       /\ conn.pc = "w263" => Len(conn.acc) < frame_16k
       /\ Framed \o conn.acc = conn.fed

\* C27 witness: every message of the connection brought less than a frame, and
\* the handler, back at receive, has classified a frame made of the samples of
\* more than one message and carries a remainder.
C27_Witness ==
    /\ conn.pc = "w263"
    /\ env.msgs = 0
    /\ Len(conn.fed) = FrameMsgs
    /\ Len(gate_log) >= 1
    /\ conn.acc # <<>>

\* C28: a binary message without samples is a no-op for the connection: it is
\* not resampled (so it raises nothing, whatever in_sr is), no frame is
\* classified, the carry buffer, the hangover counter and both buffers of the
\* Ring stay as they are, nothing is published, and the handler is at receive
\* again.
C28_EmptyBinaryIsNoOp ==
    [][(env'.msgs < env.msgs /\ env'.sent = env.sent) =>
          /\ conn.pc = "w263"
          /\ conn' = conn
          /\ gate_log' = gate_log
          /\ ring_buf' = ring_buf
          /\ ring_session' = ring_session
          /\ queues' = queues]_vars

\* C28 witness: of the messages of the connection only one had samples, the
\* others were empty; the handler is at receive with a remainder in the carry
\* buffer, the hangover counting, and in_sr set to 0 by a hello.
C28_Witness ==
    /\ conn.pc = "w263"
    /\ env.msgs = 0
    /\ env.sent \in env.lens \ {0}
    /\ conn.in_sr = 0
    /\ conn.acc # <<>>
    /\ conn.hang > 0

\* The event the step has put into the queue of listener 1.
Put == queues'[1][Len(queues'[1])]

PutDone == Len(queues'[1]) = Len(queues[1]) + 1

\* C29: every event in a listener queue is an object with a ts and at least one
\* of partial, final, status, and a field is there exactly when the caller
\* passed a value other than None for it, the empty string included: the event
\* of start() has partial "" and final "", publish(partial=latest_text,
\* final=final_text) of the scheduler has both fields whatever the texts are,
\* publish(final=...) of stop() and of the teardown has final alone, and a
\* status event of stop() or of a new connection has status alone.
C29_EventFieldsAsPassed ==
    [][/\ \A i \in 1..Len(queues'[1]) :
             /\ "ts" \in DOMAIN queues'[1][i]
             /\ DOMAIN queues'[1][i] \subseteq {"ts", "partial", "final", "status"}
             /\ DOMAIN queues'[1][i] # {"ts"}
       /\ queues' # queues => PutDone
       /\ \A t \in DOMAIN starts :
             (starts[t].pc = "s227" /\ starts'[t].pc = "idle") =>
                (PutDone /\ Put = [ts |-> clock, partial |-> "", final |-> "",
                                   status |-> "started"])
       /\ \A t \in DOMAIN stops :
             /\ (stops[t].pc = "t239" /\ stops'[t].pc = "t240") =>
                   (PutDone /\ Put = [ts |-> clock, final |-> final_text])
             /\ (stops[t].pc = "t240" /\ stops'[t].pc = "t241") =>
                   (PutDone /\ Put = [ts |-> clock, status |-> "stopped"])
       /\ \A w \in DOMAIN workers :
             /\ (workers[w].pc = "w182" /\ workers'[w] # workers[w]) =>
                   \/ workers'[w].latest_text = workers[w].latest_text
                         /\ queues' = queues
                   \/ PutDone /\ Put = [ts |-> clock,
                                         partial |-> workers'[w].latest_text,
                                         final |-> final_text]
             /\ (workers[w].pc = "w191" /\ workers'[w] # workers[w]) =>
                   (PutDone /\ Put = [ts |-> clock,
                                      partial |-> workers[w].latest_text,
                                      final |-> final_text])
       /\ (conn.pc = "none" /\ conn'.pc = "w263") =>
             (PutDone /\ Put = [ts |-> clock, status |-> "mic_connected"])
       /\ (conn.pc = "w303" /\ conn'.pc = "done") =>
             (PutDone /\ DOMAIN Put = {"ts", "final"} /\ Put.final \in env.texts)]_vars

\* C29 witness: the listener was sent the event of start(), an event of the
\* scheduler with an empty partial and an empty final, a final event with an
\* empty text and the stopped event.
C29_Witness ==
    /\ \E i \in 1..Len(queues[1]) :
          DOMAIN queues[1][i] = {"ts", "partial", "final", "status"}
    /\ \E i \in 1..Len(queues[1]) :
          /\ DOMAIN queues[1][i] = {"ts", "partial", "final"}
          /\ queues[1][i].partial = "" /\ queues[1][i].final = ""
    /\ \E i \in 1..Len(queues[1]) :
          DOMAIN queues[1][i] = {"ts", "final"} /\ queues[1][i].final = ""
    /\ \E i \in 1..Len(queues[1]) :
          DOMAIN queues[1][i] = {"ts", "status"} /\ queues[1][i].status = "stopped"

\* The events listener l has been given so far: those its stream has emitted
\* and those still in its queue.
Received(l) ==
    (IF streams[l].out = <<>> THEN <<>> ELSE Tail(streams[l].out)) \o queues[l]

\* C30: all listeners see the events in one order: two events that two
\* listeners have both received, whoever published them (start(), stop(), a
\* new connection, served concurrently), were received by both in the same
\* relative order.
C30_OneOrderForAllListeners ==
    \A l1, l2 \in ListenerIds :
       LET r1 == Received(l1)
           r2 == Received(l2)
       IN  \A i, j \in 1..Len(r1) :
              i < j => \A m, n \in 1..Len(r2) :
                          (r2[m] = r1[i] /\ r2[n] = r1[j]) => m < n

\* C30 witness: two listeners have received the same three events, the started,
\* the stopped and the mic_connected event; one has read them all and the other
\* none.
C30_Witness ==
    /\ Len(Received(1)) = 3
    /\ Received(1) = Received(2)
    /\ \A l \in {1, 2} : \A i, j \in 1..3 : i # j => Received(l)[i] # Received(l)[j]
    /\ queues[1] = <<>>
    /\ streams[2].out = <<":ok">>

\* an event of the scheduler: worker_loop publishes partial and final together and
\* no status (lines 185 and 191); no other caller of publish() does
SchedulerEvent(msg) ==
    /\ "partial" \in DOMAIN msg
    /\ "status" \notin DOMAIN msg

StartedEvent(msg) ==
    /\ "status" \in DOMAIN msg
    /\ msg.status = "started"

\* C31: the status=started event is the first event of a session: in the order
\* the events reach a listener, every partial/final event of the scheduler of the
\* (only) session comes after the started event of the start() that launched it.
C31_StartedIsFirstEvent ==
    \A i \in 1..Len(queues[1]) :
       SchedulerEvent(queues[1][i]) =>
          \E j \in 1..(i - 1) : StartedEvent(queues[1][j])

\* C32: the stored final text is derived only from audio of the session: while
\* a session is Running, no audio of it has reached the session store (so no
\* final decode over its audio can have run) and no stop() of an earlier session
\* is still at work, the stored final text is empty.
C32_FinalTextOfThisSession ==
    (/\ run_flag
     /\ ring_session = <<>>
     /\ \A t \in DOMAIN stops : stops[t].pc = "idle") => final_text = ""

\* the positions in the queue q of the events that carry a final field
FinalEvents(q) == {i \in 1..Len(q) : "final" \in DOMAIN q[i]}

LastFinal(q) == q[CHOOSE i \in FinalEvents(q) : \A j \in FinalEvents(q) : j <= i].final

\* C33: while the session is not Running, the final text that stop() returns
\* with already_stopped is the final value of the most recently published event
\* that carries a final field, a final published by the teardown of a connection
\* included (the listener has received every event and read none).
C33_AlreadyStoppedReturnsLastFinal ==
    [][\A t \in DOMAIN stops :
         (/\ stops[t].pc = "t234"
          /\ stops'[t].pc = "idle"
          /\ ~run_flag
          /\ FinalEvents(queues[1]) # {}) =>
             stops'[t].res = [status |-> "already_stopped",
                              final |-> LastFinal(queues[1])]]_vars

\* the changes of status that are steps forward: through the stages in order,
\* "generating i/total" from i = 1 in steps of one up to total; a job without
\* chunks goes from generating to concatenating; failed from any generating or
\* concatenating stage
StepForward(s, t) ==
    \/ s = <<"queued">> /\ t = <<"chunked">>
    \/ s = <<"chunked">> /\ t = <<"generating">>
    \/ s = <<"generating">> /\ Len(t) = 3 /\ t[1] = "generating" /\ t[2] = 1
                            /\ t[3] >= 1
    \/ s = <<"generating">> /\ t \in {<<"concatenating">>, <<"failed">>}
    \/ Len(s) = 3 /\ Len(t) = 3 /\ t[1] = "generating" /\ t[2] = s[2] + 1
                  /\ t[3] = s[3] /\ t[2] <= t[3]
    \/ Len(s) = 3 /\ s[2] = s[3] /\ t = <<"concatenating">>
    \/ Len(s) = 3 /\ t = <<"failed">>
    \/ s = <<"concatenating">> /\ t \in {<<"done">>, <<"failed">>}

\* C34: the status of a video job only moves forward through queued, chunked,
\* generating, "generating i/total" with i going up from 1 to total,
\* concatenating, then done or failed; done and failed are final; concatenating
\* is entered only when every chunk has been processed (its audio extracted and
\* its 192 frames appended) and no fatal error was recorded.
C34_StatusMovesForward ==
    [][\A j \in DOMAIN JOBS :
         /\ JOBS'[j].status # JOBS[j].status =>
               StepForward(JOBS[j].status, JOBS'[j].status)
         /\ (JOBS'[j].status # JOBS[j].status
             /\ JOBS'[j].status = <<"concatenating">>) =>
               /\ tasks'[j].i = tasks'[j].n
               /\ Len(tasks'[j].audio_parts) = tasks'[j].n
               /\ DOMAIN tasks'[j].master = 1..(TARGET_FRAMES * tasks'[j].n)
               /\ \A k \in 1..Len(tasks'[j].errors) : tasks'[j].errors[k] # "FATAL"]_vars

\* a job of two chunks has failed while concatenating, and another state in
\* which it is done is told apart by the status
C34_Witness ==
    \E j \in DOMAIN JOBS :
       /\ JOBS[j].status = <<"failed">>
       /\ tasks[j].n = 2
       /\ tasks[j].i = 2
       /\ tasks[j].errors[Len(tasks[j].errors)] = "error"

\* C35: whenever a reader of the status (GET /api/status, answered while
\* process_job runs) observes the status done, the video_path of its answer is
\* set; and in no state has a job that is not done a video_path.
C35_DoneHasVideoPath ==
    /\ (probe.fn = "status_api" /\ probe.pc = "done"
        /\ probe.status = <<"done">>) => probe.video_path # None
    /\ \A j \in DOMAIN JOBS :
          JOBS[j].video_path # None => JOBS[j].status = <<"done">>

\* C36: for every best tail index best_idx in 189..192 the trimmed directory of
\* a chunk holds exactly the files 1..192: the frames 1..best_idx followed by
\* the D = 192 - best_idx frames best_idx-D..best_idx-1; and after k chunks the
\* master sequence holds exactly the files 1..192*k and master_next_idx is
\* 192*k + 1.
C36_TrimmedHas192Frames ==
    \A j \in DOMAIN tasks :
       LET t == tasks[j]
           b == t.best.best_idx
           D == TARGET_FRAMES - b
       IN  /\ t.pc \in {"p377", "p397", "p402"} =>
                /\ b \in CANDIDATE_START..CANDIDATE_END
                /\ DOMAIN t.trim = 1..TARGET_FRAMES
                /\ \A k \in 1..b : t.trim[k] = t.frames[k]
                /\ \A k \in 1..D : t.trim[b + k] = t.frames[b - D + k - 1]
           /\ t.pc = "p307" =>
                /\ DOMAIN t.master = 1..(TARGET_FRAMES * t.i)
                /\ t.master_next_idx = TARGET_FRAMES * t.i + 1

\* the second chunk has been trimmed around the earliest tail index, the first
\* chunk is in the master sequence
C36_Witness ==
    \E j \in DOMAIN tasks :
       /\ tasks[j].pc = "p402"
       /\ tasks[j].i = 2
       /\ tasks[j].best.best_idx = CANDIDATE_START
       /\ DOMAIN tasks[j].master = 1..TARGET_FRAMES

\* C37: whenever the extraction produced at least one frame,
\* extract_frames_exact_192 leaves exactly the files 1..192 in out_dir: the
\* extracted frames in order, the last one repeated when there are fewer than
\* 192, and nothing after frame 192 when there are more.
C37_Exactly192Frames ==
    (/\ probe.fn = "extract_frames_exact_192"
     /\ ~probe.raised
     /\ probe.count > 0) =>
        /\ DOMAIN probe.res = 1..TARGET_FRAMES
        /\ \A k \in 1..TARGET_FRAMES :
              probe.res[k] = <<probe.scene,
                               IF k <= probe.count THEN k ELSE probe.count>>

\* a short video has been extracted into a directory that held the frames of
\* an earlier extraction
C37_Witness ==
    /\ probe.fn = "extract_frames_exact_192"
    /\ ~probe.raised
    /\ probe.stale
    /\ probe.count > 0
    /\ probe.count < TARGET_FRAMES
    /\ probe.res[TARGET_FRAMES] = <<probe.scene, probe.count>>

\* C38: pick_best_from_candidates returns an index in start_idx..end_idx, and
\* as best_path the copied candidate file of that index; when a candidate can
\* be read, the index is the lowest one whose blur score is the maximum over
\* the readable candidates and the returned score is that score, a score of 0
\* included.
C38_PickReturnsSharpest ==
    (probe.fn = "pick_best_from_candidates" /\ ~probe.res.raised) =>
        LET r == probe.res
            readable == {i \in CANDIDATE_START..CANDIDATE_END : ~probe.blurs[i].none}
        IN  /\ r.best_idx \in CANDIDATE_START..CANDIDATE_END
            /\ r.best_path = r.best_idx
            /\ r.best_path \in DOMAIN r.cand
            /\ readable # {} =>
                  /\ r.best_idx \in readable
                  /\ r.best_score = probe.blurs[r.best_idx].v
                  /\ \A i \in readable : probe.blurs[i].v <= r.best_score
                  /\ \A i \in readable :
                        probe.blurs[i].v = r.best_score => r.best_idx <= i

\* an attempt of the chunk's upscale loop was accepted and its upload succeeded
AcceptedUpload(t) ==
    \E k \in DOMAIN t.tries : t.tries[k].similarity = "True" /\ t.tries[k].uploaded

IsUpscaledUrl(url) == Len(url) >= 2 /\ url[2] = "upscaled"

\* at most MAX_GEMINI_RETRIES attempts, none after an accepted one
AtMostRetries(t) ==
    /\ Len(t.tries) <= MAX_GEMINI_RETRIES
    /\ \A k \in DOMAIN t.tries : t.tries[k].similarity = "True" => k = Len(t.tries)

\* the upscaled image is the reference only after an accepted attempt whose
\* upload succeeded
UpscaledOnlyIfAccepted(t) ==
    t.step = "decided" =>
       (IsUpscaledUrl(t.next_image_url) <=> AcceptedUpload(t))

\* otherwise the reference, where the chunk has a best frame and the step sets
\* a reference, is that best frame
OtherwiseBestFrame(t) ==
    (/\ t.step = "decided"
     /\ ~AcceptedUpload(t)
     /\ t.best_png # <<>>
     /\ t.next_image_url # <<>>) =>
        t.next_image_url = upload_public_png(t.best_png)

\* C39: in the GPT-5/Gemini continuity step the upscale loop makes at most
\* MAX_GEMINI_RETRIES attempts and stops at the first accepted one; the
\* upscaled image becomes the next chunk's reference only if an attempt was
\* accepted and its upload succeeded, otherwise the non-upscaled best frame of
\* the chunk is the reference; a rejected or inconclusive check never yields
\* the upscaled image.
C39_UpscaledOnlyIfAccepted ==
    \A j \in DOMAIN tasks :
       /\ AtMostRetries(tasks[j])
       /\ UpscaledOnlyIfAccepted(tasks[j])
       /\ OtherwiseBestFrame(tasks[j])

====
